---- MODULE Spec2Model ----
(***************************************************************************)
(* A model of the Google Ads account audit script (src/audit.js).         *)
(*                                                                         *)
(* The script's globals (SPREADSHEET_ID, SPREADSHEET_URL, ALL_RESULTS,     *)
(* CRITICAL_ISSUES), the Logger output, the spreadsheet it writes and the  *)
(* position of main() are the state.  Every statement of main() is one     *)
(* action.  A check module is a pure operator from the part of the data    *)
(* source it reads to the sequence of addResult calls it makes; the        *)
(* action of the module folds addResult over that sequence.                *)
(*                                                                         *)
(* A finding is the row [category, item, status, details, recommendation]  *)
(* of addResult.  The free text of `details` is kept as the sequence of    *)
(* the values the script interpolates into it (entity names, counts); the  *)
(* text of `recommendation` is abbreviated.                                *)
(***************************************************************************)
EXTENDS Integers, Sequences, FiniteSets, TLC

VARIABLES
    SPREADSHEET_URL,  \* global, audit.js:40
    SPREADSHEET_ID,   \* global, audit.js:41
    ALL_RESULTS,      \* global, audit.js:42: sheet name -> rows
    CRITICAL_ISSUES,  \* global, audit.js:43
    Logger,           \* the lines written with Logger.log, in order
    pc,               \* the statement of main() to execute next
    sheets,           \* the spreadsheet: sheet name -> the rows below its header row
    src,              \* the data source (AdsApp), as the modules read it
    CONFIG,           \* the user-set switches of CONFIG
    faults,           \* where the spreadsheet services raise in this run
    raised            \* the categories of the modules in which an exception reached
                      \* the module's outer catch block or left the module

vars == <<SPREADSHEET_URL, SPREADSHEET_ID, ALL_RESULTS, CRITICAL_ISSUES, Logger,
          pc, sheets, src, CONFIG, faults, raised>>

---------------------------------------------------------------------------
(* Bounds of the model *)

\* the most entities (campaigns, ad groups, keywords, ads, URLs) one module iterates
MaxEntities == 2
\* the most addResult calls of a behaviour of SpecCollector
MaxCalls == 2

---------------------------------------------------------------------------
(* CONFIG, audit.js:12-37 *)

MIN_QUALITY_SCORE == 5
MIN_ADS_PER_ADGROUP == 2
MAX_KEYWORDS_PER_ADGROUP == 20
LANDING_PAGE_SAMPLE_SIZE == 100

---------------------------------------------------------------------------
(* Sheet names, audit.js:46-53 *)

SHEET_NAMES ==
    [OVERVIEW |-> "Overview",
     PERFORMANCE |-> "Performance Summary",
     STRUCTURE_SETTINGS |-> "Structure & Settings",
     KEYWORDS_ADGROUPS |-> "Keywords & AdGroups",
     ADS_EXTENSIONS |-> "Ads & Extensions",
     MANUAL_CHECKS |-> "Opportunities & Manual Checks"]

\* Object.values(SHEET_NAMES), in declaration order
requiredSheets ==
    <<SHEET_NAMES.OVERVIEW, SHEET_NAMES.PERFORMANCE, SHEET_NAMES.STRUCTURE_SETTINGS,
      SHEET_NAMES.KEYWORDS_ADGROUPS, SHEET_NAMES.ADS_EXTENSIONS, SHEET_NAMES.MANUAL_CHECKS>>

\* the order of the areas in the summary
sheetOrder ==
    <<SHEET_NAMES.PERFORMANCE, SHEET_NAMES.STRUCTURE_SETTINGS,
      SHEET_NAMES.KEYWORDS_ADGROUPS, SHEET_NAMES.ADS_EXTENSIONS, SHEET_NAMES.MANUAL_CHECKS>>

Range(s) == {s[i] : i \in DOMAIN s}

DetailSheets == Range(sheetOrder)

NULL == "null"

---------------------------------------------------------------------------
(* Sequences *)

SeqsUpTo(S, n) == UNION {[1..k -> S] : k \in 0..n}

RECURSIVE Concat(_)
Concat(ss) == IF ss = <<>> THEN <<>> ELSE Head(ss) \o Concat(Tail(ss))

RECURSIVE SumSeq(_)
SumSeq(ns) == IF ns = <<>> THEN 0 ELSE Head(ns) + SumSeq(Tail(ns))

---------------------------------------------------------------------------
(* The result collector, audit.js:196-251 *)

\* the labels the switch of getSheetNameForCategory lists
RoutingTable ==
    {"Account Settings", "Account Structure", "Keywords", "Ad Groups", "Quality Score",
     "Ad Copy", "Ad Extensions (Assets)", "Performance Metrics", "Bidding Strategies",
     "Campaign Optimization", "Conversion Tracking", "Landing Pages",
     "Audience Targeting", "Automation & Tools", "Competitive Analysis",
     "Reporting & Insights"}

\* getSheetNameForCategory with a default branch that answers the overview sheet
getSheetNameForCategoryOverviewDefault(category) ==
    CASE category \in {"Account Settings", "Account Structure"} ->
            SHEET_NAMES.STRUCTURE_SETTINGS
      [] category \in {"Keywords", "Ad Groups", "Quality Score"} ->
            SHEET_NAMES.KEYWORDS_ADGROUPS
      [] category \in {"Ad Copy", "Ad Extensions (Assets)"} ->
            SHEET_NAMES.ADS_EXTENSIONS
      [] category \in {"Performance Metrics", "Bidding Strategies", "Campaign Optimization"} ->
            SHEET_NAMES.PERFORMANCE
      [] category \in {"Conversion Tracking", "Landing Pages", "Audience Targeting",
                       "Automation & Tools", "Competitive Analysis", "Reporting & Insights"} ->
            SHEET_NAMES.MANUAL_CHECKS
      [] OTHER -> SHEET_NAMES.OVERVIEW

getSheetNameForCategory(category) ==
    CASE category \in {"Account Settings", "Account Structure"} ->
            SHEET_NAMES.STRUCTURE_SETTINGS
      [] category \in {"Keywords", "Ad Groups", "Quality Score"} ->
            SHEET_NAMES.KEYWORDS_ADGROUPS
      [] category \in {"Ad Copy", "Ad Extensions (Assets)"} ->
            SHEET_NAMES.ADS_EXTENSIONS
      [] category \in {"Performance Metrics", "Bidding Strategies", "Campaign Optimization"} ->
            SHEET_NAMES.PERFORMANCE
      [] category \in {"Conversion Tracking", "Landing Pages", "Audience Targeting",
                       "Automation & Tools", "Competitive Analysis", "Reporting & Insights"} ->
            SHEET_NAMES.MANUAL_CHECKS
      [] OTHER -> SHEET_NAMES.MANUAL_CHECKS

\* a line of the log: what wrote it, and the row it is about
LogLine(kind, row) == [kind |-> kind, row |-> row]

\* ALL_RESULTS[sheetName].unshift(rowData): the row put at the front of the bucket
PushRowFront(results, sheetName, rowData) ==
    IF sheetName \in DOMAIN results
    THEN [results EXCEPT ![sheetName] = <<rowData>> \o @]
    ELSE [n \in DOMAIN results \cup {sheetName} |->
            IF n = sheetName THEN <<rowData>> ELSE results[n]]

\* a push that leaves out a row the bucket already holds
PushRowDistinct(results, sheetName, rowData) ==
    IF sheetName \in DOMAIN results
    THEN [results EXCEPT ![sheetName] =
             IF \E i \in DOMAIN @ : @[i] = rowData THEN @ ELSE Append(@, rowData)]
    ELSE [n \in DOMAIN results \cup {sheetName} |->
            IF n = sheetName THEN <<rowData>> ELSE results[n]]

\* ALL_RESULTS[sheetName].push(rowData), the bucket created when absent
PushRow(results, sheetName, rowData) ==
    IF sheetName \in DOMAIN results
    THEN [results EXCEPT ![sheetName] = Append(@, rowData)]
    ELSE [n \in DOMAIN results \cup {sheetName} |->
            IF n = sheetName THEN <<rowData>> ELSE results[n]]

\* a push to CRITICAL_ISSUES that takes Warn rows as well
PushCriticalWarn(critical, rowData) ==
    IF rowData[3] \in {"Fail", "Warn"} THEN Append(critical, rowData) ELSE critical

\* CRITICAL_ISSUES after the row: pushed when status === "Fail"
PushCritical(critical, rowData) ==
    IF rowData[3] = "Fail" THEN Append(critical, rowData) ELSE critical

\* a line of the log that is not about a finding
Note(kind, text) == LogLine(kind, <<"", text, "", <<>>, "">>)

\* the log after getSheetNameForCategory(category): the default branch warns, audit.js:220
LogUnknown(log, category) ==
    IF category \in RoutingTable THEN log
    ELSE Append(log, Note("warning", "Unknown category"))

\* g holds the globals addResult reads and writes: all, critical, log
addResult(g, category, item, status, details, recommendation) ==
    LET rowData == <<category, item, status, details, recommendation>>
        sheetName == getSheetNameForCategory(category)
    IN  [all |-> PushRow(g.all, sheetName, rowData),
         critical |-> PushCritical(g.critical, rowData),
         log |-> Append(LogUnknown(g.log, category), LogLine("addResult", rowData))]

\* Logger.log("Warning: ...") of a module: a line of the log and no finding
LogOnly(category, what, details) == <<"log", <<category, what, "", details, "">>>>

IsLogOnly(x) == Len(x) = 2

\* the addResult and Logger.log calls of a module, in order: a row is an addResult call
RECURSIVE addResults(_, _)
addResults(g, rows) ==
    IF rows = <<>> THEN g
    ELSE LET r == Head(rows)
         IN  IF IsLogOnly(r)
             THEN addResults([g EXCEPT !.log = Append(@, LogLine("warning", r[2]))], Tail(rows))
             ELSE addResults(addResult(g, r[1], r[2], r[3], r[4], r[5]), Tail(rows))

Globals == [all |-> ALL_RESULTS, critical |-> CRITICAL_ISSUES, log |-> Logger]

SetGlobals(g) ==
    /\ ALL_RESULTS' = g.all
    /\ CRITICAL_ISSUES' = g.critical
    /\ Logger' = g.log

---------------------------------------------------------------------------
(* What a module body does, as a sequence: a row for an addResult call,    *)
(* THROW where an exception is raised.  Nothing after a THROW is executed. *)

THROW == <<"throw">>

IsThrow(x) == Len(x) = 1

HasThrow(items) == \E i \in DOMAIN items : IsThrow(items[i])

FirstThrow(items) == CHOOSE i \in DOMAIN items :
                        IsThrow(items[i]) /\ \A j \in 1..(i-1) : ~IsThrow(items[j])

UpToThrow(items) == IF HasThrow(items) THEN SubSeq(items, 1, FirstThrow(items) - 1) ELSE items

\* try { body } catch (e) { handler }
TryCatch(body, handler) == IF HasThrow(body) THEN UpToThrow(body) \o handler ELSE body

\* an accessor call: raises when its outcome is "throw"
Call(outcome) == IF outcome = "throw" THEN <<THROW>> ELSE <<>>

\* the catch block every module has but auditPerformanceMetrics and auditConversionTracking
GeneralCheck(category) ==
    <<category, "General Check", "Error", <<"error">>, "Investigate the error.">>

\* the outcome of a module: the rows it recorded and how its body ended
ModuleResult(items) ==
    [rows |-> UpToThrow(items),
     exc |-> IF HasThrow(items) THEN "escaped" ELSE "none"]

\* a catch block that drops what the module had recorded
GuardedRollback(category, body) ==
    [rows |-> IF HasThrow(body) THEN <<GeneralCheck(category)>> ELSE body,
     exc |-> IF HasThrow(body) THEN "caught" ELSE "none"]

\* function f() { try { body } catch (e) { addResult(category, "General Check", "Error", ...) } }
Guarded(category, body) ==
    [rows |-> UpToThrow(TryCatch(body, <<GeneralCheck(category)>>)),
     exc |-> IF ~HasThrow(body) THEN "none"
             ELSE IF HasThrow(TryCatch(body, <<GeneralCheck(category)>>)) THEN "escaped"
             ELSE "caught"]

\* a finding with a status outside those addResult documents
InfoUnlisted(category, item, details, recommendation) ==
    <<category, item, "N/A", details, recommendation>>

Info(category, item, details, recommendation) ==
    <<category, item, "Info", details, recommendation>>

---------------------------------------------------------------------------
(* Names of the entities of the data source, and the naming patterns of    *)
(* CONFIG, audit.js:27-28.  A name is a string; Chars gives its characters, *)
(* which RegExp.test reads.                                                 *)

\* names of campaigns that follow the convention, and names that do not, by position
GoodCampaignNames == <<"US-Brand-Search", "UK-Brand-Search", "DE-Brand-Search">>
BadCampaignNames == <<"summer_sale", "winter_sale", "spring_sale">>
GoodAdGroupNames == <<"Brand_Exact", "Shoes_Broad", "Hats_Phrase">>
BadAdGroupNames == <<"brand exact", "shoes", "hats-phrase">>

CampaignName(i) == GoodCampaignNames[i]
AdGroupName(i) == GoodAdGroupNames[i]

Chars(name) ==
    CASE
 name = "US-Brand-Search" -> <<"U", "S", "-", "B", "r", "a", "n", "d", "-", "S", "e", "a", "r", "c", "h">>
      [] name = "UK-Brand-Search" -> <<"U", "K", "-", "B", "r", "a", "n", "d", "-", "S", "e", "a", "r", "c", "h">>
      [] name = "DE-Brand-Search" -> <<"D", "E", "-", "B", "r", "a", "n", "d", "-", "S", "e", "a", "r", "c", "h">>
      [] name = "summer_sale" -> <<"s", "u", "m", "m", "e", "r", "_", "s", "a", "l", "e">>
      [] name = "winter_sale" -> <<"w", "i", "n", "t", "e", "r", "_", "s", "a", "l", "e">>
      [] name = "spring_sale" -> <<"s", "p", "r", "i", "n", "g", "_", "s", "a", "l", "e">>
      [] name = "Brand_Exact" -> <<"B", "r", "a", "n", "d", "_", "E", "x", "a", "c", "t">>
      [] name = "Shoes_Broad" -> <<"S", "h", "o", "e", "s", "_", "B", "r", "o", "a", "d">>
      [] name = "Hats_Phrase" -> <<"H", "a", "t", "s", "_", "P", "h", "r", "a", "s", "e">>
      [] name = "brand exact" -> <<"b", "r", "a", "n", "d", " ", "e", "x", "a", "c", "t">>
      [] name = "shoes" -> <<"s", "h", "o", "e", "s">>
      [] name = "hats-phrase" -> <<"h", "a", "t", "s", "-", "p", "h", "r", "a", "s", "e">>

UpperCase == {"A","B","C","D","E","F","G","H","I","J","K","L","M",
              "N","O","P","Q","R","S","T","U","V","W","X","Y","Z"}
LowerCase == {"a","b","c","d","e","f","g","h","i","j","k","l","m",
              "n","o","p","q","r","s","t","u","v","w","x","y","z"}
Digits == {"0","1","2","3","4","5","6","7","8","9"}
AlphaNum == UpperCase \cup LowerCase \cup Digits
LineTerminators == {"\n", "\r"}

AllIn(s, from, to, class) == \A k \in from..to : s[k] \in class

\* /^[A-Z]{2,}-[A-Za-z0-9]+-.+$/.test(name)
CAMPAIGN_NAMING_CONVENTION_REGEX(name) ==
    LET s == Chars(name)
    IN  \E i \in 2..Len(s), j \in 1..Len(s) :
            /\ AllIn(s, 1, i, UpperCase)
            /\ i + 1 <= Len(s) /\ s[i + 1] = "-"
            /\ j >= i + 2 /\ AllIn(s, i + 2, j, AlphaNum)
            /\ j + 1 <= Len(s) /\ s[j + 1] = "-"
            /\ j + 2 <= Len(s)
            /\ \A k \in (j + 2)..Len(s) : s[k] \notin LineTerminators

\* /^[A-Za-z0-9]+_.+$/.test(name)
ADGROUP_NAMING_CONVENTION_REGEX(name) ==
    LET s == Chars(name)
    IN  \E i \in 1..Len(s) :
            /\ AllIn(s, 1, i, AlphaNum)
            /\ i + 1 <= Len(s) /\ s[i + 1] = "_"
            /\ i + 2 <= Len(s)
            /\ \A k \in (i + 2)..Len(s) : s[k] \notin LineTerminators

\* Number.prototype.toFixed(2) of a whole number
ToFixed2(n) == ToString(n) \o ".00"

---------------------------------------------------------------------------
(* auditAccountSettings, audit.js:423-472 *)

\* what one enabled campaign answers: ip is the outcome of targeting().excludedIpAddresses()
\* ("ok" with n addresses, "nomethod", "throw"), name that of getName()
SettingsCampaigns ==
    {[ip |-> "ok", n |-> 0, name |-> "ok"], [ip |-> "ok", n |-> 2, name |-> "ok"],
     [ip |-> "nomethod", n |-> 0, name |-> "ok"], [ip |-> "throw", n |-> 0, name |-> "ok"],
     [ip |-> "throw", n |-> 0, name |-> "throw"]}

SettingsInputs ==
    {[account |-> "throw", iterator |-> "ok", campaigns |-> <<>>],
     [account |-> "ok", iterator |-> "throw", campaigns |-> <<>>]}
    \cup {[account |-> "ok", iterator |-> "ok", campaigns |-> cs] :
            cs \in SeqsUpTo(SettingsCampaigns, MaxEntities)}

\* the body of the while loop for campaign i, audit.js:440-457
SettingsCampaign(c, i) ==
    LET category == "Account Settings"
        name == CampaignName(i)
    IN  TryCatch(
            IF c.ip = "throw" THEN <<THROW>>
            ELSE IF c.ip = "ok" THEN <<>>
            ELSE Call(c.name) \o
                 <<Info(category, "IP Exclusions Check", <<name>>, "Method unavailable.")>>,
            Call(c.name) \o
            <<<<category, "IP Exclusions Check", "Error", <<name, "error">>,
                "Check script permissions or API changes.">>>>)

auditAccountSettings(d) ==
    LET category == "Account Settings"
        cs == d.campaigns
        ipExclusionCount ==
            SumSeq([i \in DOMAIN cs |-> IF cs[i].ip = "ok" THEN cs[i].n ELSE 0])
        campaignsWithIpExclusions ==
            SumSeq([i \in DOMAIN cs |-> IF cs[i].ip = "ok" /\ cs[i].n > 0 THEN 1 ELSE 0])
    IN  Guarded(category,
            Call(d.account)
            \o <<Info(category, "Currency and Time Zone", <<"USD", "UTC">>,
                      "Verify these are correct for the business."),
                 Info(category, "Auto-tagging Enabled", <<"Manual Check Required">>,
                      "Verify auto-tagging status.")>>
            \o Call(d.iterator)
            \o Concat([i \in DOMAIN cs |-> SettingsCampaign(cs[i], i)])
            \o <<<<category, "IP Exclusions",
                   IF ipExclusionCount > 0 THEN "Info" ELSE "Warn",
                   <<ToString(ipExclusionCount), ToString(campaignsWithIpExclusions)>>,
                   IF ipExclusionCount > 0 THEN "Review excluded IPs periodically."
                   ELSE "Consider adding IP exclusions.">>,
                 Info(category, "Location Targeting", <<"Checked per campaign.">>,
                      "Ensure targeting matches business goals."),
                 Info(category, "Language Settings", <<"Checked per campaign.">>,
                      "Ensure language aligns with ad content."),
                 Info(category, "Device Targeting", <<"Checked per campaign.">>,
                      "Review device performance."),
                 Info(category, "Ad Scheduling", <<"Checked per campaign.">>,
                      "Review performance by time/day.")>>)

---------------------------------------------------------------------------
(* auditAccountStructure, audit.js:479-536 *)

\* what one enabled or paused campaign answers: name is "good" or "bad" (the name
\* follows the convention or not) or "throw"; budget is the outcome of getBudget():
\* "ok" (an amount of 10), "null", "throw", or "nullAmount" (getAmount() gives null)
StructureCampaigns ==
    {[name |-> n, budget |-> b] : n \in {"good", "bad"},
                                   b \in {"ok", "null", "throw", "nullAmount"}}
    \cup {[name |-> "throw", budget |-> "ok"]}

StructureInputs ==
    {[iterator |-> "throw", campaigns |-> <<>>]}
    \cup {[iterator |-> "ok", campaigns |-> cs] :
            cs \in SeqsUpTo(StructureCampaigns, MaxEntities)}

StructureName(c, i) == IF c.name = "bad" THEN BadCampaignNames[i] ELSE GoodCampaignNames[i]

budgetAmount(c) == IF c.budget = "ok" THEN 10 ELSE 0

\* the status of the finding recorded when getBudget() raises, audit.js:502
BudgetErrorStatus == "Warn"

\* the body of the while loop for campaign i, audit.js:492-516
StructureCampaign(c, i) ==
    LET category == "Account Structure"
        campaignName == StructureName(c, i)
    IN  Call(c.name)
        \o TryCatch(Call(c.budget),
                    <<<<category, "Budget Check", BudgetErrorStatus, <<campaignName, "error">>,
                        "Review budget setting manually.">>>>)
        \o (IF ~CAMPAIGN_NAMING_CONVENTION_REGEX(campaignName)
            THEN <<<<category, "Campaign Naming Convention", "Warn", <<campaignName>>,
                     "Standardize campaign naming for better organization.">>>>
            ELSE <<>>)
        \* null.toFixed(2) raises a TypeError
        \o (IF c.budget = "nullAmount" THEN <<THROW>> ELSE <<>>)
        \o <<Info(category, "Budget Allocation",
                  <<campaignName, ToFixed2(budgetAmount(c)), "USD">>,
                  "Ensure budget aligns with campaign priority and performance.")>>

auditAccountStructure(d) ==
    LET category == "Account Structure"
        cs == d.campaigns
        campaignsChecked == Len(cs)
        campaignsWithPoorNaming ==
            SumSeq([i \in DOMAIN cs |->
                      IF CAMPAIGN_NAMING_CONVENTION_REGEX(StructureName(cs[i], i)) THEN 0 ELSE 1])
        totalBudget == SumSeq([i \in DOMAIN cs |-> budgetAmount(cs[i])])
    IN  Guarded(category,
            Call(d.iterator)
            \o Concat([i \in DOMAIN cs |-> StructureCampaign(cs[i], i)])
            \o (IF campaignsChecked > 0 /\ campaignsWithPoorNaming = 0
                THEN <<<<category, "Campaign Naming Convention", "Pass",
                         <<ToString(campaignsChecked)>>, "Maintain consistent naming.">>>>
                ELSE IF campaignsChecked > 0 /\ campaignsWithPoorNaming > 0 THEN <<>>
                ELSE <<Info(category, "Campaign Naming Convention",
                            <<"No active/paused campaigns found to check.">>, "N/A")>>)
            \o <<Info(category, "Total Account Budget", <<ToFixed2(totalBudget), "USD">>,
                      "Verify total budget aligns with overall advertising goals."),
                 Info(category, "Campaign Organization", <<"Manual Review Required">>,
                      "Review campaign goals and structure."),
                 Info(category, "Ad Group Theming", <<"Checked in Ad Groups module.">>,
                      "Ensure ad groups contain tightly themed keywords."),
                 Info(category, "Overlapping Keywords", <<"Basic checks in Keywords module.">>,
                      "Perform deeper analysis if needed.")>>)

---------------------------------------------------------------------------
(* auditConversionTracking, audit.js:544-653: one call, outside any try *)

auditConversionTracking ==
    ModuleResult(
        <<Info("Conversion Tracking", "Conversion Action Check", <<"Manual Check Required">>,
               "Review conversion actions manually in the UI.")>>)

---------------------------------------------------------------------------
(* auditKeywords, audit.js:661-807 *)

\* The enabled campaigns and ad groups the module walks: campaign 1 holds ad groups
\* 1 and 2, campaign 2 holds ad group 3.  A keyword names the ad group it is in.
KeywordCampaigns == <<1, 2>>
AdGroupCampaign == <<1, 1, 2>>
AdGroupsOf(c) == SelectSeq(<<1, 2, 3>>, LAMBDA a : AdGroupCampaign[a] = c)

\* what one enabled keyword answers: text is that of getText() ("throw" when it
\* raises), qs that of getQualityScore(): a score, "null" or "throw"
KeywordChoices ==
    {[adGroup |-> k[1], text |-> k[2], matchType |-> k[3], qs |-> k[4]] :
        k \in {<<1, "shoes", "EXACT", "7">>, <<2, "shoes", "EXACT", "7">>,
               <<3, "shoes", "EXACT", "7">>, <<1, "shoes", "EXACT", "3">>,
               <<2, "shoes", "EXACT", "3">>, <<1, "shoes", "EXACT", "throw">>,
               <<1, "shoes", "EXACT", "null">>, <<2, "shoes", "BROAD", "7">>,
               <<2, "hats", "PHRASE", "7">>, <<1, "throw", "EXACT", "7">>}}

QsNumber(q) == CASE q = "7" -> 7 [] q = "3" -> 3 [] OTHER -> 0

QsIsNumber(q) == q \in {"7", "3"}

\* lists: the negatives of the account's lists ("0", "3") or "throw";
\* campaignNegatives, adGroupNegatives: those of negativeKeywords() by campaign, ad group
KeywordsBase ==
    [lists |-> "3", iterator |-> "ok", campaignNegatives |-> <<"2", "2">>,
     adGroupNegatives |-> <<"2", "2", "2">>, keywords |-> <<>>]

\* accounts in which one keyword is held by the ad groups of two campaigns, by one
\* ad group twice, and by two ad groups around a keyword whose text cannot be read
RepeatedKeywords ==
    LET shoes(a) == [adGroup |-> a, text |-> "shoes", matchType |-> "EXACT", qs |-> "7"]
    IN  {<<shoes(1), shoes(2), shoes(3)>>,
         <<shoes(2), shoes(1), shoes(2)>>,
         <<shoes(3), shoes(3), shoes(2)>>,
         <<shoes(1), [shoes(1) EXCEPT !.text = "throw"], shoes(2)>>}

KeywordsInputs ==
    {[KeywordsBase EXCEPT !.keywords = ks] : ks \in SeqsUpTo(KeywordChoices, MaxEntities)}
    \cup {[KeywordsBase EXCEPT !.keywords = ks] : ks \in RepeatedKeywords}
    \cup {[KeywordsBase EXCEPT !.lists = l] : l \in {"0", "throw"}}
    \cup {[KeywordsBase EXCEPT !.iterator = "throw"]}
    \cup {[KeywordsBase EXCEPT !.campaignNegatives[1] = n] : n \in {"0", "throw"}}
    \cup {[KeywordsBase EXCEPT !.adGroupNegatives[1] = n] : n \in {"0", "throw"}}

NegativesNumber(n) == CASE n = "2" -> 2 [] n = "3" -> 3 [] OTHER -> 0

\* the keywords in the order the nested loops reach them
KeywordOrder(d) ==
    Concat([a \in 1..3 |-> SelectSeq(d.keywords, LAMBDA k : k.adGroup = a)])

duplicateKey(k) == <<AdGroupCampaign[k.adGroup], k.text, k.matchType>>

\* duplicateKeywordMap[duplicateKey] when keyword p is reached: the ad group of the
\* first keyword with the key, 0 when there is none
duplicateKeywordMap(ks, p) ==
    LET earlier == {q \in 1..(p - 1) : duplicateKey(ks[q]) = duplicateKey(ks[p])}
    IN  IF earlier = {} THEN 0
        ELSE ks[CHOOSE q \in earlier : \A r \in earlier : q <= r].adGroup

\* the body of the keyword loop for the keyword at position p, audit.js:732-781
KeywordItems(ks, p) ==
    LET category == "Keywords"
        k == ks[p]
        adGroupName == AdGroupName(k.adGroup)
        campaignName == CampaignName(AdGroupCampaign[k.adGroup])
    IN  Call(k.text)
        \o TryCatch(Call(k.qs),
                    <<LogOnly(category, "Could not get QS", <<k.text, adGroupName>>)>>)
        \o (IF QsIsNumber(k.qs) /\ QsNumber(k.qs) < MIN_QUALITY_SCORE
            THEN <<<<category, "Low Quality Score", "Fail",
                     <<k.text, k.matchType, adGroupName, k.qs>>,
                     "Improve ad relevance, expected CTR, or landing page experience.">>>>
            ELSE <<>>)
        \o (IF duplicateKeywordMap(ks, p) # 0 /\ duplicateKeywordMap(ks, p) # k.adGroup
            THEN <<<<category, "Potential Duplicate Keyword (Cross-AdGroup)", "Warn",
                     <<k.text, k.matchType, adGroupName,
                       ToString(duplicateKeywordMap(ks, p)), campaignName>>,
                     "Ensure keywords don't compete across ad groups.">>>>
            ELSE <<>>)
        \o <<Info(category, "Keyword Bids", <<k.text, k.matchType, "Managed by Strategy">>,
                  "Ensure bids align with performance and bidding strategy.")>>

\* the negatives check of a campaign or an ad group, audit.js:694-703 and 713-722
NegativesItems(outcome, item, name, details, recommendation) ==
    TryCatch(Call(outcome)
             \o (IF NegativesNumber(outcome) = 0
                 THEN <<<<"Keywords", item, "Warn", details, recommendation>>>>
                 ELSE <<>>),
             <<<<"Keywords", item \o " Check", "Error", <<name, "error">>,
                 "Check permissions.">>>>)

KeywordsAdGroup(d, ks, a) ==
    NegativesItems(d.adGroupNegatives[a], "Ad Group Negative Keywords", AdGroupName(a),
                   <<AdGroupName(a), CampaignName(AdGroupCampaign[a])>>,
                   "Add ad group-level negatives for fine-tuning.")
    \o Concat([p \in DOMAIN ks |-> IF ks[p].adGroup = a THEN KeywordItems(ks, p) ELSE <<>>])

KeywordsCampaign(d, ks, c) ==
    NegativesItems(d.campaignNegatives[c], "Campaign Negative Keywords", CampaignName(c),
                   <<CampaignName(c)>>, "Add campaign-level negatives.")
    \o Concat([j \in DOMAIN AdGroupsOf(c) |-> KeywordsAdGroup(d, ks, AdGroupsOf(c)[j])])

auditKeywords(d) ==
    LET category == "Keywords"
        ks == KeywordOrder(d)
        keywordsChecked == Len(ks)
        CountKw(Test(_)) == Len(SelectSeq(ks, Test))
        lowQsKeywords ==
            CountKw(LAMBDA k : QsIsNumber(k.qs) /\ QsNumber(k.qs) < MIN_QUALITY_SCORE)
        qsErrorCount == CountKw(LAMBDA k : k.qs = "throw")
        statsErrorCount == keywordsChecked
        negativeKeywordsAccount == NegativesNumber(d.lists)
        negativeKeywordsCampaign ==
            SumSeq([c \in 1..2 |-> NegativesNumber(d.campaignNegatives[c])])
        negativeKeywordsAdGroup ==
            SumSeq([a \in 1..3 |-> NegativesNumber(d.adGroupNegatives[a])])
    IN  Guarded(category,
            Call(d.lists)
            \o <<<<category, "Account Negative Keywords",
                   IF negativeKeywordsAccount > 0 THEN "Pass" ELSE "Warn",
                   <<ToString(negativeKeywordsAccount)>>,
                   IF negativeKeywordsAccount > 0 THEN "Review lists periodically."
                   ELSE "Consider creating account-level negative lists.">>>>
            \o Call(d.iterator)
            \o Concat([c \in 1..2 |-> KeywordsCampaign(d, ks, c)])
            \o <<Info(category, "Keyword Match Types",
                      <<ToString(CountKw(LAMBDA k : k.matchType = "BROAD")),
                        ToString(CountKw(LAMBDA k : k.matchType = "PHRASE")),
                        ToString(CountKw(LAMBDA k : k.matchType = "EXACT")),
                        ToString(keywordsChecked)>>,
                      "Ensure match type usage aligns with campaign goals."),
                 Info(category, "Total Negative Keywords",
                      <<ToString(negativeKeywordsAccount), ToString(negativeKeywordsCampaign),
                        ToString(negativeKeywordsAdGroup)>>,
                      "Ensure comprehensive negative keyword coverage."),
                 Info(category, "Search Terms Report Review", <<"Manual Check Required">>,
                      "Regularly review the Search Terms Report."),
                 Info(category, "Keyword Alignment with Goals", <<"Manual Review Required">>,
                      "Ensure keywords in each ad group are relevant.")>>
            \o (IF keywordsChecked > 0 /\ lowQsKeywords = 0
                THEN <<<<category, "Low Quality Score", "Pass",
                         <<ToString(MIN_QUALITY_SCORE), ToString(keywordsChecked)>>,
                         "Maintain good QS practices.">>>>
                ELSE <<>>)
            \o (IF statsErrorCount > 0
                THEN <<Info(category, "Keyword Performance Checks",
                            <<ToString(statsErrorCount)>>,
                            "Review keyword performance manually.")>>
                ELSE <<>>)
            \o (IF qsErrorCount > 0
                THEN <<<<category, "Quality Score Errors", "Warn", <<ToString(qsErrorCount)>>,
                         "Check script logs for details.">>>>
                ELSE <<>>))

---------------------------------------------------------------------------
(* auditAdGroups, audit.js:814-897 *)

\* what one enabled ad group answers: name is "good", "bad" or "throw" (getName());
\* keywords the count of its enabled keywords, "0dsa" for none in a dynamic ad group
\* of a Search campaign, or "throw"; ads the count of its enabled ads or "throw"
AdGroupChoices ==
    {[name |-> c[1], keywords |-> c[2], ads |-> c[3]] :
        c \in {<<"good", "5", "3">>, <<"good", "0", "3">>, <<"good", "0dsa", "3">>,
               <<"good", "20", "3">>, <<"good", "21", "3">>, <<"good", "throw", "3">>,
               <<"good", "5", "1">>, <<"good", "5", "2">>, <<"good", "5", "throw">>,
               <<"bad", "5", "3">>, <<"bad", "0", "1">>, <<"throw", "5", "3">>}}

AdGroupsInputs ==
    {[iterator |-> "throw", adGroups |-> <<>>]}
    \cup {[iterator |-> "ok", adGroups |-> gs] : gs \in SeqsUpTo(AdGroupChoices, MaxEntities)}

CountNumber(n) ==
    CASE n = "1" -> 1 [] n = "2" -> 2 [] n = "3" -> 3 [] n = "5" -> 5
      [] n = "20" -> 20 [] n = "21" -> 21 [] OTHER -> 0

AdGroupNameOf(g, i) == IF g.name = "bad" THEN BadAdGroupNames[i] ELSE GoodAdGroupNames[i]

\* the keyword count check of one ad group, audit.js:835-851
KeywordCountItems(g, adGroupName, campaignName) ==
    LET category == "Ad Groups"
        keywordCount == CountNumber(g.keywords)
    IN  TryCatch(
            Call(g.keywords)
            \o (IF keywordCount > MAX_KEYWORDS_PER_ADGROUP
                THEN <<<<category, "Keyword Count", "Warn",
                         <<adGroupName, campaignName, ToString(keywordCount)>>,
                         "Consider splitting into more tightly themed ad groups.">>>>
                ELSE IF keywordCount = 0
                THEN IF g.keywords # "0dsa"
                     THEN <<<<category, "Keyword Count", "Warn",
                              <<adGroupName, campaignName, "0">>,
                              "Add relevant keywords or pause the ad group.">>>>
                     ELSE <<Info(category, "Keyword Count", <<adGroupName, campaignName, "DSA">>,
                                 "Expected for DSA ad groups.")>>
                ELSE <<>>),
            <<<<category, "Keyword Count Check", "Error", <<adGroupName, "error">>,
                "Check permissions.">>>>)

\* the ad count check of one ad group, audit.js:855-864
AdCountItems(g, adGroupName, campaignName) ==
    LET category == "Ad Groups"
        adCount == CountNumber(g.ads)
    IN  TryCatch(
            Call(g.ads)
            \o (IF adCount < MIN_ADS_PER_ADGROUP
                THEN <<<<category, "Ad Count", "Fail",
                         <<adGroupName, campaignName, ToString(adCount)>>,
                         "Create more relevant ads per ad group.">>>>
                ELSE <<>>),
            <<<<category, "Ad Count Check", "Error", <<adGroupName, "error">>,
                "Check permissions.">>>>)

\* the body of the while loop for ad group i, audit.js:829-881
AdGroupItems(g, i) ==
    LET category == "Ad Groups"
        adGroupName == AdGroupNameOf(g, i)
        campaignName == CampaignName(1)
    IN  Call(g.name)
        \o KeywordCountItems(g, adGroupName, campaignName)
        \o AdCountItems(g, adGroupName, campaignName)
        \o (IF ~ADGROUP_NAMING_CONVENTION_REGEX(adGroupName)
            THEN <<<<category, "Ad Group Naming", "Warn", <<adGroupName, campaignName>>,
                     "Standardize ad group naming.">>>>
            ELSE <<>>)
        \o <<Info(category, "Ad Group Bids", <<adGroupName, campaignName, "Managed by Strategy">>,
                  "Ensure bids align with performance goals and bidding strategy.")>>

auditAdGroups(d) ==
    LET category == "Ad Groups"
        gs == d.adGroups
        adGroupsChecked == Len(gs)
        adGroupsWithLowAdCount ==
            Len(SelectSeq(gs, LAMBDA g : g.ads # "throw"
                                         /\ CountNumber(g.ads) < MIN_ADS_PER_ADGROUP))
        adGroupsWithHighKeywordCount ==
            Len(SelectSeq(gs, LAMBDA g : CountNumber(g.keywords) > MAX_KEYWORDS_PER_ADGROUP))
        adGroupsWithPoorNaming ==
            SumSeq([i \in DOMAIN gs |->
                      IF ADGROUP_NAMING_CONVENTION_REGEX(AdGroupNameOf(gs[i], i)) THEN 0 ELSE 1])
    IN  Guarded(category,
            Call(d.iterator)
            \o Concat([i \in DOMAIN gs |-> AdGroupItems(gs[i], i)])
            \o (IF adGroupsChecked > 0
                THEN (IF adGroupsWithLowAdCount = 0
                      THEN <<<<category, "Ad Count", "Pass",
                               <<ToString(adGroupsChecked), ToString(MIN_ADS_PER_ADGROUP)>>,
                               "Continue A/B testing ads.">>>>
                      ELSE <<>>)
                     \o (IF adGroupsWithHighKeywordCount = 0
                         THEN <<<<category, "Keyword Count", "Pass",
                                  <<ToString(adGroupsChecked),
                                    ToString(MAX_KEYWORDS_PER_ADGROUP)>>,
                                  "Maintain tight keyword themes.">>>>
                         ELSE <<>>)
                     \o (IF adGroupsWithPoorNaming = 0
                         THEN <<<<category, "Ad Group Naming", "Pass",
                                  <<ToString(adGroupsChecked)>>,
                                  "Maintain consistent naming.">>>>
                         ELSE <<>>)
                ELSE <<Info(category, "General Check",
                            <<"No enabled ad groups found in enabled campaigns.">>, "N/A")>>)
            \o <<Info(category, "Competing Keywords within Ad Group",
                      <<"Basic duplicate checks in Keywords module.">>,
                      "Manually review keyword themes within ad groups.")>>)

---------------------------------------------------------------------------
(* auditAdCopy, audit.js:905-1006 *)

\* what one enabled ad answers: the id of its ad group, its type ("throw" when
\* getType() raises), whether its campaign is a Search campaign, and its policy
\* approval status ("throw" when getPolicyApprovalStatus() raises)
AdChoices ==
    {[adGroup |-> c[1], type |-> c[2], search |-> c[3], policy |-> c[4]] :
        c \in {<<1, "RESPONSIVE_SEARCH_AD", TRUE, "APPROVED">>,
               <<2, "RESPONSIVE_SEARCH_AD", TRUE, "APPROVED">>,
               <<1, "EXPANDED_TEXT_AD", TRUE, "APPROVED">>,
               <<2, "EXPANDED_TEXT_AD", TRUE, "APPROVED">>,
               <<1, "EXPANDED_TEXT_AD", FALSE, "APPROVED">>,
               <<1, "CALL_ONLY_AD", TRUE, "APPROVED">>,
               <<1, "RESPONSIVE_SEARCH_AD", TRUE, "DISAPPROVED">>,
               <<2, "EXPANDED_TEXT_AD", TRUE, "DISAPPROVED">>,
               <<1, "RESPONSIVE_SEARCH_AD", TRUE, "UNDER_REVIEW">>,
               <<1, "RESPONSIVE_SEARCH_AD", TRUE, "throw">>,
               <<1, "throw", TRUE, "APPROVED">>}}

AdCopyInputs ==
    {[iterator |-> "throw", ads |-> <<>>]}
    \cup {[iterator |-> "ok", ads |-> as] : as \in SeqsUpTo(AdChoices, MaxEntities)}

\* the value the map adGroupsWithNoRsa holds for ad group a after the loop, audit.js:935-948:
\* "false" once an RSA was seen, "object" when only other ads of a Search campaign were,
\* "absent" when the key was never written
adGroupsWithNoRsa(ads, a) ==
    IF \E i \in DOMAIN ads : ads[i].adGroup = a /\ ads[i].type = "RESPONSIVE_SEARCH_AD"
    THEN "false"
    ELSE IF \E i \in DOMAIN ads : ads[i].adGroup = a /\ ads[i].search
         THEN "object"
         ELSE "absent"

\* the body of the while loop for one ad, audit.js:923-961
AdItems(ad) ==
    LET category == "Ad Copy"
        adGroupName == AdGroupName(ad.adGroup)
        campaignName == CampaignName(AdGroupCampaign[ad.adGroup])
        policyApprovalStatus == IF ad.policy = "throw" THEN "UNKNOWN" ELSE ad.policy
    IN  Call(ad.type)
        \o (IF ad.policy = "throw"
            THEN <<LogOnly(category, "Could not get policy status for ad", <<adGroupName>>)>>
            ELSE <<>>)
        \o (IF policyApprovalStatus = "DISAPPROVED"
            THEN <<<<category, "Policy Compliance", "Fail",
                     <<adGroupName, campaignName, "DISAPPROVED">>,
                     "Review policy violations and edit or remove the ad.">>>>
            ELSE IF policyApprovalStatus # "APPROVED" /\ policyApprovalStatus # "UNKNOWN"
            THEN <<<<category, "Policy Compliance", "Warn",
                     <<adGroupName, campaignName, policyApprovalStatus>>,
                     "Monitor status; may require action if it becomes disapproved.">>>>
            ELSE <<>>)

\* the for...in loop over adGroupsWithNoRsa, audit.js:974-979: integer keys are
\* visited in ascending order
MissingRsaItems(ads) ==
    Concat([a \in 1..Len(AdGroupCampaign) |->
              IF adGroupsWithNoRsa(ads, a) = "object"
              THEN <<<<"Ad Copy", "RSA Usage per Ad Group", "Fail",
                       <<AdGroupName(a), CampaignName(AdGroupCampaign[a])>>,
                       "Ensure each active Search ad group has at least one enabled RSA.">>>>
              ELSE <<>>])

ManualReview(category, item, recommendation) ==
    Info(category, item, <<"Manual Review Required">>, recommendation)

auditAdCopy(d) ==
    LET category == "Ad Copy"
        ads == d.ads
        adsChecked == Len(ads)
        rsaCount == Len(SelectSeq(ads, LAMBDA ad : ad.type = "RESPONSIVE_SEARCH_AD"))
        nonRsaSearchAds == Len(SelectSeq(ads, LAMBDA ad : ad.type = "EXPANDED_TEXT_AD"))
        disapprovedAds == Len(SelectSeq(ads, LAMBDA ad : ad.policy = "DISAPPROVED"))
        missingRsaCount == Len(MissingRsaItems(ads))
    IN  Guarded(category,
            Call(d.iterator)
            \o Concat([i \in DOMAIN ads |-> AdItems(ads[i])])
            \o (IF adsChecked > 0
                THEN (IF rsaCount > 0
                      THEN <<<<category, "Responsive Search Ads (RSAs) Utilized", "Pass",
                               <<ToString(rsaCount)>>,
                               "Ensure RSAs have sufficient high-quality assets.">>>>
                      ELSE <<>>)
                     \o (IF nonRsaSearchAds > 0
                         THEN <<<<category, "Legacy Ad Formats (ETAs)", "Warn",
                                  <<ToString(nonRsaSearchAds)>>,
                                  "Consider migrating ETAs to RSAs.">>>>
                         ELSE <<>>)
                     \o MissingRsaItems(ads)
                     \o (IF missingRsaCount = 0 /\ rsaCount > 0
                         THEN <<<<category, "RSA Usage per Ad Group", "Pass",
                                  <<"All checked Search ad groups with ads have an RSA.">>,
                                  "Good.">>>>
                         ELSE IF missingRsaCount = 0 /\ rsaCount = 0 /\ nonRsaSearchAds = 0
                         THEN <<Info(category, "RSA Usage per Ad Group",
                                     <<"No enabled Search ads (RSA or ETA) found.">>, "N/A")>>
                         ELSE <<>>)
                ELSE <<Info(category, "General Check",
                            <<"No enabled ads found in enabled ad groups/campaigns.">>, "N/A")>>)
            \o (IF adsChecked > 0 /\ disapprovedAds = 0
                THEN <<<<category, "Policy Compliance", "Pass", <<ToString(adsChecked)>>,
                         "Maintain policy compliance.">>>>
                ELSE <<>>)
            \o <<ManualReview(category, "Headlines & Descriptions", "Review RSAs."),
                 ManualReview(category, "Call-to-Actions (CTAs)", "Ensure ads include CTAs."),
                 ManualReview(category, "Ad Tailoring to Theme", "Verify relevance."),
                 ManualReview(category, "Ad Variations (A/B Testing)", "Regularly test."),
                 ManualReview(category, "Spelling & Grammar", "Proofread all ad copy.")>>)

---------------------------------------------------------------------------
(* auditAdExtensions, audit.js:1013-1141 *)

\* what the extensions of one campaign or ad group answer: which kinds it holds (one
\* instance of each kind held), "throw" when extensions() raises, "sitelinksThenThrow"
\* when the sitelinks are read and callouts() raises, "noSnippets" when it holds
\* sitelinks and callouts and has no structuredSnippets method
ExtSitelinks(o) == IF o \in {"sitelinks", "both", "all", "sitelinksThenThrow", "noSnippets"} THEN 1 ELSE 0
ExtCallouts(o) == IF o \in {"callouts", "both", "all", "noSnippets"} THEN 1 ELSE 0
ExtOthers(o) == IF o = "all" THEN 1 ELSE 0
ExtThrows(o) == o \in {"throw", "sitelinksThenThrow"}

ExtensionCampaigns ==
    {[name |-> c[1], campaign |-> c[2], iterator |-> c[3], adGroups |-> c[4]] :
        c \in {<<"ok", "both", "ok", <<"none">>>>,
               <<"ok", "none", "ok", <<"none">>>>,
               <<"ok", "none", "ok", <<"both">>>>,
               <<"ok", "sitelinks", "ok", <<"callouts">>>>,
               <<"ok", "all", "ok", <<>>>>,
               <<"ok", "throw", "ok", <<"none">>>>,
               <<"ok", "sitelinksThenThrow", "ok", <<>>>>,
               <<"ok", "both", "ok", <<"throw">>>>,
               <<"ok", "noSnippets", "ok", <<"noSnippets">>>>,
               <<"ok", "both", "throw", <<>>>>,
               <<"throw", "both", "ok", <<>>>>}}

ExtensionsInputs ==
    {[account |-> "throw", callouts |-> "0", iterator |-> "ok", campaigns |-> <<>>],
     [account |-> "ok", callouts |-> "0", iterator |-> "throw", campaigns |-> <<>>]}
    \cup {[account |-> "ok", callouts |-> k, iterator |-> "ok", campaigns |-> <<>>] :
            k \in {"2", "throw"}}
    \cup {[account |-> "ok", callouts |-> "0", iterator |-> "ok", campaigns |-> cs] :
            cs \in SeqsUpTo(ExtensionCampaigns, MaxEntities)}

\* the status of the finding a failed account-level callout read leaves, audit.js:1036
CalloutsErrorStatus == "Warn"

hasSitelinks(c) ==
    ExtSitelinks(c.campaign) = 1 \/ \E j \in DOMAIN c.adGroups : ExtSitelinks(c.adGroups[j]) = 1

hasCallouts(c) ==
    ExtCallouts(c.campaign) = 1 \/ \E j \in DOMAIN c.adGroups : ExtCallouts(c.adGroups[j]) = 1

\* one try block over the extensions of a campaign or an ad group, audit.js:1056-1078, 1085-1108
ExtensionItems(o, level, name) ==
    LET category == "Ad Extensions (Assets)"
    IN  TryCatch(
            (IF ExtThrows(o) THEN <<THROW>> ELSE <<>>)
            \o (IF o = "noSnippets"
                THEN <<Info(category, level \o " Structured Snippet Check", <<name>>,
                            "Method unavailable.")>>
                ELSE <<>>),
            <<<<category, level \o " Extension Check", "Error", <<name, "error">>,
                "Check script permissions or API changes.">>>>)

\* the body of the campaign loop, audit.js:1049-1119
ExtensionCampaign(c, i) ==
    LET category == "Ad Extensions (Assets)"
        campaignName == CampaignName(i)
    IN  Call(c.name)
        \o ExtensionItems(c.campaign, "Campaign", campaignName)
        \o Call(c.iterator)
        \o Concat([j \in DOMAIN c.adGroups |->
                     ExtensionItems(c.adGroups[j], "AdGroup", AdGroupName(j))])
        \o (IF ~hasSitelinks(c)
            THEN <<<<category, "Sitelink Extensions", "Fail", <<campaignName>>,
                     "Add relevant Sitelinks to improve ad visibility and CTR.">>>>
            ELSE <<>>)
        \o (IF ~hasCallouts(c)
            THEN <<<<category, "Callout Extensions", "Fail", <<campaignName>>,
                     "Add Callouts highlighting key benefits or features.">>>>
            ELSE <<>>)

\* extensionsChecked after the loops: per kind the instances, the campaigns and the
\* ad groups holding it, audit.js:1017-1024
extensionsChecked(d, Kind(_)) ==
    LET cs == d.campaigns
        inCampaigns == SumSeq([i \in DOMAIN cs |-> Kind(cs[i].campaign)])
        inAdGroups ==
            SumSeq([i \in DOMAIN cs |->
                      SumSeq([j \in DOMAIN cs[i].adGroups |-> Kind(cs[i].adGroups[j])])])
    IN  [count |-> inCampaigns + inAdGroups, campaigns |-> inCampaigns, adgroups |-> inAdGroups]

CountStatus(category, item, count, present, missing) ==
    <<category, item, IF count > 0 THEN "Pass" ELSE "Warn", <<ToString(count)>>,
      IF count > 0 THEN present ELSE missing>>

auditAdExtensions(d) ==
    LET category == "Ad Extensions (Assets)"
        cs == d.campaigns
        campaignsChecked == Len(cs)
        campaignsWithoutSitelinks == Len(SelectSeq(cs, LAMBDA c : ~hasSitelinks(c)))
        campaignsWithoutCallouts == Len(SelectSeq(cs, LAMBDA c : ~hasCallouts(c)))
        accountCallouts == CountNumber(d.callouts)
        SITELINK == extensionsChecked(d, ExtSitelinks)
        CALLOUT == extensionsChecked(d, ExtCallouts)
        OTHER_KIND == extensionsChecked(d, ExtOthers)
    IN  Guarded(category,
            Call(d.account)
            \o TryCatch(
                   Call(d.callouts)
                   \o <<Info(category, "Account Level Callouts", <<ToString(accountCallouts)>>,
                             "Ensure these are appropriate account-wide.")>>,
                   <<<<category, "Account Level Callouts Check", CalloutsErrorStatus,
                       <<"error">>, "Method might be unavailable.">>>>)
            \o <<ManualReview(category, "Location Extensions", "Verify Google Business Profile.")>>
            \o Call(d.iterator)
            \o Concat([i \in DOMAIN cs |-> ExtensionCampaign(cs[i], i)])
            \o (IF campaignsChecked > 0
                THEN (IF campaignsWithoutSitelinks = 0
                      THEN <<<<category, "Sitelink Extensions Linked", "Pass",
                               <<ToString(campaignsChecked)>>,
                               "Ensure Sitelinks are relevant and up-to-date.">>>>
                      ELSE <<>>)
                     \o (IF campaignsWithoutCallouts = 0
                         THEN <<<<category, "Callout Extensions Linked", "Pass",
                                  <<ToString(campaignsChecked)>>,
                                  "Ensure Callouts are relevant and compelling.">>>>
                         ELSE <<>>)
                ELSE <<Info(category, "General Check",
                            <<"No enabled campaigns found to check for extensions.">>, "N/A")>>)
            \o <<Info(category, "Total Sitelink Instances",
                      <<ToString(SITELINK.count), ToString(SITELINK.campaigns),
                        ToString(SITELINK.adgroups)>>, "Review relevance."),
                 Info(category, "Total Callout Instances",
                      <<ToString(CALLOUT.count + accountCallouts), ToString(CALLOUT.campaigns),
                        ToString(CALLOUT.adgroups)>>, "Review relevance."),
                 CountStatus(category, "Structured Snippets", OTHER_KIND.count,
                             "Ensure relevance.", "Utilize Structured Snippets where applicable."),
                 CountStatus(category, "Call Extensions", OTHER_KIND.count,
                             "Ensure number is correct.", "Add Call Extensions."),
                 CountStatus(category, "Price Extensions", OTHER_KIND.count,
                             "Keep prices up-to-date.", "Use Price Extensions if relevant."),
                 ManualReview(category, "Extension Relevance & Updates",
                              "Periodically review all active extensions.")>>)

---------------------------------------------------------------------------
(* auditBiddingStrategies, audit.js:1149-1264 *)

\* CONFIG.MAX_IMPRESSION_SHARE_LOST_RANK and CONFIG.MAX_IMPRESSION_SHARE_LOST_BUDGET,
\* audit.js:19-20, in percent: impression shares are modelled as whole percentages
MAX_IMPRESSION_SHARE_LOST_RANK == 20
MAX_IMPRESSION_SHARE_LOST_BUDGET == 10

\* what one enabled campaign answers: strategy is getBiddingStrategyType() or "throw";
\* stats is "ok", "throw" (getStats() raises), "unavailable" (no getStats method) or
\* "null" (getStats() returns null); lostBudget and lostRank are the lost impression
\* shares in percent or "throw"; adjustments counts the device bid modifiers that are
\* not 1.0, or is "throw"
BiddingCampaigns ==
    {[name |-> c[1], strategy |-> c[2], stats |-> c[3], lostBudget |-> c[4],
      lostRank |-> c[5], adjustments |-> c[6]] :
        c \in {<<"ok", "TARGET_CPA", "ok", "5", "5", "1">>,
               <<"ok", "MANUAL_CPC", "ok", "5", "5", "1">>,
               <<"ok", "MAXIMIZE_CLICKS", "ok", "5", "5", "1">>,
               <<"ok", "throw", "ok", "5", "5", "1">>,
               <<"ok", "TARGET_CPA", "throw", "5", "5", "1">>,
               <<"ok", "TARGET_CPA", "unavailable", "5", "5", "1">>,
               <<"ok", "TARGET_CPA", "null", "5", "5", "1">>,
               <<"ok", "TARGET_CPA", "ok", "10", "20", "1">>,
               <<"ok", "TARGET_CPA", "ok", "15", "5", "1">>,
               <<"ok", "TARGET_CPA", "ok", "5", "25", "1">>,
               <<"ok", "TARGET_CPA", "ok", "throw", "throw", "1">>,
               <<"ok", "TARGET_CPA", "ok", "5", "5", "0">>,
               <<"ok", "TARGET_CPA", "ok", "5", "5", "throw">>,
               <<"throw", "TARGET_CPA", "ok", "5", "5", "1">>}}

BiddingInputs ==
    {[iterator |-> "throw", campaigns |-> <<>>]}
    \cup {[iterator |-> "ok", campaigns |-> cs] : cs \in SeqsUpTo(BiddingCampaigns, MaxEntities)}

PercentNumber(p) ==
    CASE p = "5" -> 5 [] p = "10" -> 10 [] p = "15" -> 15 [] p = "20" -> 20
      [] p = "25" -> 25 [] OTHER -> 0

ToFixed1(n) == ToString(n) \o ".0"

ManualStrategies == {"MANUAL_CPC", "MANUAL_CPM", "MANUAL_CPV", "ENHANCED_CPC"}
SmartStrategies == {"TARGET_CPA", "TARGET_ROAS", "MAXIMIZE_CONVERSIONS", "MAXIMIZE_CONVERSION_VALUE"}

\* the value of biddingStrategyType after the try of audit.js:1176
biddingStrategyType(c) == IF c.strategy = "throw" THEN "UNKNOWN" ELSE c.strategy

\* whether the try of audit.js:1179-1195 counted a stats error
statsError(c) == c.stats \in {"throw", "unavailable"}

\* isLostBudget and isLostRank after audit.js:1184-1185: a read that raises leaves 0
isLostBudget(c) == IF c.stats = "ok" THEN PercentNumber(c.lostBudget) ELSE 0
isLostRank(c) == IF c.stats = "ok" THEN PercentNumber(c.lostRank) ELSE 0

\* the body of the campaign loop, audit.js:1168-1238
BiddingCampaign(c, i) ==
    LET category == "Bidding Strategies"
        campaignName == CampaignName(i)
        type == biddingStrategyType(c)
        bidAdjustmentCount == CountNumber(c.adjustments)
    IN  Call(c.name)
        \o (IF c.strategy = "throw"
            THEN <<LogOnly(category, "Could not get bidding strategy", <<campaignName>>)>>
            ELSE <<>>)
        \o (IF statsError(c)
            THEN <<LogOnly(category, "Could not get stats for campaign", <<campaignName>>)>>
            ELSE <<>>)
        \o (IF type \in ManualStrategies
            THEN <<<<category, "Manual/Enhanced Bidding Usage", "Warn", <<campaignName, type>>,
                     "Ensure manual/eCPC bidding is intentional and actively managed.">>>>
            ELSE IF type \in SmartStrategies
            THEN <<<<category, "Smart Bidding Usage", "Pass", <<campaignName, type>>,
                     "Ensure sufficient conversion data for optimal performance.">>>>
            ELSE IF type # "UNKNOWN"
            THEN <<Info(category, "Other Bidding Strategy", <<campaignName, type>>,
                        "Ensure strategy aligns with the primary goal of the campaign.")>>
            ELSE <<<<category, "Bidding Strategy Check", "Warn", <<campaignName>>,
                     "Review manually.">>>>)
        \o (IF c.stats = "ok" /\ isLostBudget(c) > MAX_IMPRESSION_SHARE_LOST_BUDGET
            THEN <<<<category, "Impression Share Lost (Budget)", "Fail",
                     <<campaignName, ToFixed1(isLostBudget(c)),
                       ToString(MAX_IMPRESSION_SHARE_LOST_BUDGET)>>,
                     "Increase budget if performance is good.">>>>
            ELSE <<>>)
        \o (IF c.stats = "ok" /\ isLostRank(c) > MAX_IMPRESSION_SHARE_LOST_RANK
            THEN <<<<category, "Impression Share Lost (Rank)", "Fail",
                     <<campaignName, ToFixed1(isLostRank(c)),
                       ToString(MAX_IMPRESSION_SHARE_LOST_RANK)>>,
                     "Improve Quality Score and/or increase bids.">>>>
            ELSE <<>>)
        \o TryCatch(
               Call(c.adjustments)
               \o <<<<category, "Bid Adjustments",
                      IF bidAdjustmentCount > 0 THEN "Info" ELSE "Warn",
                      <<campaignName, ToString(bidAdjustmentCount)>>,
                      IF bidAdjustmentCount > 0
                      THEN "Review performance data to ensure adjustments are justified."
                      ELSE "Consider setting bid adjustments.">>>>,
               <<<<category, "Bid Adjustments Check", "Error", <<campaignName, "error">>,
                   "Check permissions/campaign type.">>>>)

auditBiddingStrategies(d) ==
    LET category == "Bidding Strategies"
        cs == d.campaigns
        campaignsChecked == Len(cs)
        manualCpcCampaigns ==
            Len(SelectSeq(cs, LAMBDA c : biddingStrategyType(c) \in ManualStrategies))
        smartBiddingCampaigns ==
            Len(SelectSeq(cs, LAMBDA c : biddingStrategyType(c) \in SmartStrategies))
        otherBiddingCampaigns ==
            Len(SelectSeq(cs, LAMBDA c : biddingStrategyType(c) \notin
                                           ManualStrategies \cup SmartStrategies \cup {"UNKNOWN"}))
        highIsLostBudgetCampaigns ==
            Len(SelectSeq(cs, LAMBDA c : isLostBudget(c) > MAX_IMPRESSION_SHARE_LOST_BUDGET))
        limitedByBudgetCampaigns == highIsLostBudgetCampaigns
        highIsLostRankCampaigns ==
            Len(SelectSeq(cs, LAMBDA c : isLostRank(c) > MAX_IMPRESSION_SHARE_LOST_RANK))
        statsErrorCount == Len(SelectSeq(cs, statsError))
    IN  Guarded(category,
            Call(d.iterator)
            \o Concat([i \in DOMAIN cs |-> BiddingCampaign(cs[i], i)])
            \o <<Info(category, "Bidding Strategy Mix",
                      <<ToString(manualCpcCampaigns), ToString(smartBiddingCampaigns),
                        ToString(otherBiddingCampaigns)>>,
                      "Ensure the mix of strategies aligns with overall account goals.")>>
            \o (IF campaignsChecked > 0
                THEN IF statsErrorCount > 0
                     THEN <<<<category, "Impression Share Checks", "Warn",
                              <<ToString(statsErrorCount)>>,
                              "Review IS manually for these campaigns.">>>>
                     ELSE <<IF highIsLostBudgetCampaigns = 0
                            THEN <<category, "Impression Share Lost (Budget)", "Pass",
                                   <<ToString(MAX_IMPRESSION_SHARE_LOST_BUDGET)>>,
                                   "Monitor budget utilization.">>
                            ELSE <<category, "Budget Constraints", "Fail",
                                   <<ToString(limitedByBudgetCampaigns)>>,
                                   "Review campaigns flagged for high IS Lost (Budget).">>,
                            IF highIsLostRankCampaigns = 0
                            THEN <<category, "Impression Share Lost (Rank)", "Pass",
                                   <<ToString(MAX_IMPRESSION_SHARE_LOST_RANK)>>,
                                   "Maintain good Quality Scores and competitive bids.">>
                            ELSE <<category, "Rank Constraints", "Fail",
                                   <<ToString(highIsLostRankCampaigns)>>,
                                   "Review campaigns flagged for high IS Lost (Rank).">>>>
                ELSE <<Info(category, "General Check",
                            <<"No enabled campaigns found to check bidding.">>, "N/A")>>)
            \o <<ManualReview(category, "Smart Bidding Optimization",
                              "Ensure conversion tracking is accurate.")>>)

---------------------------------------------------------------------------
(* auditQualityScore, audit.js:1272-1363 *)

\* what one enabled keyword answers: text is "ok" or "throw" (getText()); qs is
\* getQualityScore(): a score, "0", "null" or "throw"; the three components are
\* "BELOW_AVERAGE", "AVERAGE" or "throw"
QualityKeywords ==
    {[text |-> c[1], qs |-> c[2], adRelevance |-> c[3], expCtr |-> c[4], landingPageExp |-> c[5]] :
        c \in {<<"ok", "7", "AVERAGE", "AVERAGE", "AVERAGE">>,
               <<"ok", "5", "AVERAGE", "AVERAGE", "AVERAGE">>,
               <<"ok", "3", "AVERAGE", "AVERAGE", "AVERAGE">>,
               <<"ok", "3", "BELOW_AVERAGE", "BELOW_AVERAGE", "BELOW_AVERAGE">>,
               <<"ok", "3", "BELOW_AVERAGE", "AVERAGE", "throw">>,
               <<"ok", "0", "AVERAGE", "AVERAGE", "AVERAGE">>,
               <<"ok", "null", "AVERAGE", "AVERAGE", "AVERAGE">>,
               <<"ok", "throw", "AVERAGE", "AVERAGE", "AVERAGE">>,
               <<"throw", "7", "AVERAGE", "AVERAGE", "AVERAGE">>}}

QualityInputs ==
    {[iterator |-> "throw", keywords |-> <<>>]}
    \cup {[iterator |-> "ok", keywords |-> ks] : ks \in SeqsUpTo(QualityKeywords, MaxEntities)}

QualityNumber(q) == CASE q = "7" -> 7 [] q = "5" -> 5 [] q = "3" -> 3 [] OTHER -> 0

\* qs !== null && !isNaN(qs) && qs > 0, audit.js:1304
hasQs(k) == k.qs \notin {"null", "throw"} /\ QualityNumber(k.qs) > 0

isLowQs(k) == hasQs(k) /\ QualityNumber(k.qs) < MIN_QUALITY_SCORE

\* components.join(', ') of audit.js:1322-1326
components(k) ==
    (IF k.adRelevance = "BELOW_AVERAGE" THEN <<"Ad Relevance">> ELSE <<>>)
    \o (IF k.expCtr = "BELOW_AVERAGE" THEN <<"Exp. CTR">> ELSE <<>>)
    \o (IF k.landingPageExp = "BELOW_AVERAGE" THEN <<"Landing Page Exp.">> ELSE <<>>)

\* (sum / count).toFixed(1), audit.js:1340
ToFixed1Ratio(sum, count) ==
    LET tenths == (sum * 20 + count) \div (2 * count)
    IN  ToString(tenths \div 10) \o "." \o ToString(tenths % 10)

\* the body of the keyword loop, audit.js:1293-1335
QualityKeyword(k, i) ==
    LET category == "Quality Score"
        adGroupName == AdGroupName(i)
    IN  Call(k.text)
        \o (IF k.qs = "throw"
            THEN <<LogOnly(category, "Could not get QS for keyword", <<adGroupName>>)>>
            ELSE IF isLowQs(k)
            THEN <<<<category, "Low Quality Score (<" \o ToString(MIN_QUALITY_SCORE) \o ")", "Fail",
                     <<adGroupName, k.qs>> \o components(k),
                     "Improve the flagged components.">>>>
            ELSE <<>>)

auditQualityScore(d) ==
    LET category == "Quality Score"
        ks == d.keywords
        keywordsChecked == Len(ks)
        keywordsWithQs == Len(SelectSeq(ks, hasQs))
        avgQsSum == SumSeq([i \in DOMAIN ks |-> IF hasQs(ks[i]) THEN QualityNumber(ks[i].qs) ELSE 0])
        low == SelectSeq(ks, isLowQs)
        lowQsKeywords == Len(low)
        lowAdRelevance == Len(SelectSeq(low, LAMBDA k : k.adRelevance = "BELOW_AVERAGE"))
        lowExpCtr == Len(SelectSeq(low, LAMBDA k : k.expCtr = "BELOW_AVERAGE"))
        lowLandingPage == Len(SelectSeq(low, LAMBDA k : k.landingPageExp = "BELOW_AVERAGE"))
        qsErrorCount == Len(SelectSeq(ks, LAMBDA k : k.qs = "throw"))
    IN  Guarded(category,
            Call(d.iterator)
            \o Concat([i \in DOMAIN ks |-> QualityKeyword(ks[i], i)])
            \o (IF keywordsWithQs > 0
                THEN <<Info(category, "Average Quality Score",
                            <<ToFixed1Ratio(avgQsSum, keywordsWithQs), ToString(keywordsWithQs)>>,
                            "Aim to improve overall QS."),
                       IF lowQsKeywords = 0
                       THEN <<category,
                              "Low Quality Scores (<" \o ToString(MIN_QUALITY_SCORE) \o ")", "Pass",
                              <<ToString(MIN_QUALITY_SCORE)>>,
                              "Maintain high relevance across keywords, ads, and landing pages.">>
                       ELSE <<category, "Low Quality Score Summary", "Fail",
                              <<ToString(lowQsKeywords), ToString(lowAdRelevance),
                                ToString(lowExpCtr), ToString(lowLandingPage)>>,
                              "Focus improvement efforts on the most common low components.">>,
                       Info(category, "Ad Relevance Component", <<ToString(lowAdRelevance)>>,
                            "Ensure keywords are tightly themed within ad groups."),
                       Info(category, "Expected CTR Component", <<ToString(lowExpCtr)>>,
                            "Improve ad copy visibility."),
                       Info(category, "Landing Page Experience Component",
                            <<ToString(lowLandingPage)>>, "Ensure landing pages are relevant.")>>
                ELSE IF keywordsChecked > 0
                THEN <<Info(category, "General Check",
                            <<"No keywords with Quality Score data found", ToString(keywordsChecked)>>,
                            "Ensure campaigns are running.")>>
                ELSE <<Info(category, "General Check",
                            <<"No enabled keywords found to check Quality Score.">>, "N/A")>>)
            \o (IF qsErrorCount > 0
                THEN <<<<category, "Quality Score Errors", "Warn", <<ToString(qsErrorCount)>>,
                         "Check script logs for details.">>>>
                ELSE <<>>))

---------------------------------------------------------------------------
(* auditLandingPages, audit.js:1371-1500 *)

\* what the final URL of one enabled ad or keyword answers: from is "ad" or "keyword";
\* get is "ok", "none" (no final URL) or "throw" (getFinalUrl() raises); the URL is
\* scheme://host, and the host decides what fetching it answers
UrlSources ==
    {[from |-> c[1], get |-> c[2], scheme |-> c[3], host |-> c[4]] :
        c \in {<<"ad", "ok", "https", "ok.example">>,
               <<"ad", "ok", "http", "ok.example">>,
               <<"ad", "ok", "HTTPS", "ok.example">>,
               <<"ad", "ok", "https", "gone.example">>,
               <<"ad", "ok", "https", "down.example">>,
               <<"ad", "ok", "http", "gone.example">>,
               <<"ad", "none", "https", "ok.example">>,
               <<"ad", "throw", "https", "ok.example">>,
               <<"keyword", "ok", "https", "ok.example">>,
               <<"keyword", "ok", "http", "ok.example">>,
               <<"keyword", "throw", "https", "ok.example">>}}

LandingInputs ==
    {[fetchApp |-> TRUE, adIterator |-> a, keywordIterator |-> k, sources |-> <<>>] :
        <<a, k>> \in {<<"throw", "ok">>, <<"ok", "throw">>}}
    \cup {[fetchApp |-> f, adIterator |-> "ok", keywordIterator |-> "ok",
           sources |-> <<s>>] : f \in {FALSE}, s \in UrlSources}
    \cup {[fetchApp |-> TRUE, adIterator |-> "ok", keywordIterator |-> "ok", sources |-> ss] :
            ss \in SeqsUpTo(UrlSources, MaxEntities)}

\* the response code UrlFetchApp.fetch answers for a host, "throw" when it raises
responseCode(host) ==
    CASE host = "gone.example" -> "404" [] host = "down.example" -> "throw" [] OTHER -> "200"

ResponseNumber(code) == CASE code = "404" -> 404 [] code = "200" -> 200 [] OTHER -> 0

\* String.prototype.toLowerCase on a URL scheme
toLowerCase(scheme) == CASE scheme = "HTTPS" -> "https" [] scheme = "HTTP" -> "http" [] OTHER -> scheme

UrlOf(s) == s.scheme \o "://" \o s.host

\* url.toLowerCase().startsWith("https://"), audit.js:1436
startsWithHttps(s) == toLowerCase(s.scheme) = "https"

\* the status of the finding a failed fetch leaves, audit.js:1459
FetchErrorStatus == "Warn"

\* urlSources after both loops, audit.js:1396-1417: the ads' URLs, then the keywords'
urlSources(d) ==
    SelectSeq(d.sources, LAMBDA s : s.from = "ad" /\ s.get = "ok")
    \o SelectSeq(d.sources, LAMBDA s : s.from = "keyword" /\ s.get = "ok")

\* the loop of audit.js:1426-1477 from index i on: checkedUrls holds the URLs marked at
\* 1432, checked the sources whose checks ran; the loop ends at the end of the list or
\* when sampleSize URLs are checked, and i is the index it ends at
RECURSIVE urlLoop(_, _, _, _, _)
urlLoop(us, i, checkedUrls, checked, sampleSize) ==
    IF ~(i <= Len(us) /\ Len(checked) < sampleSize)
    THEN [checked |-> checked, i |-> i]
    ELSE IF UrlOf(us[i]) \notin checkedUrls
         THEN urlLoop(us, i + 1, checkedUrls \cup {UrlOf(us[i])}, Append(checked, us[i]),
                      sampleSize)
         ELSE urlLoop(us, i + 1, checkedUrls, checked, sampleSize)

\* a loop that checks every collected URL, marked or not, up to sampleSize of them
checkedSourcesRepeated(d, sampleSize) ==
    LET us == urlSources(d)
    IN  SubSeq(us, 1, IF Len(us) < sampleSize THEN Len(us) ELSE sampleSize)

\* the sources the loop of audit.js:1426-1477 processes: the first occurrence of each
\* URL, until sampleSize URLs are checked
checkedSources(d, sampleSize) == urlLoop(urlSources(d), 1, {}, <<>>, sampleSize).checked

isBroken(s) == ResponseNumber(responseCode(s.host)) >= 400 \/ responseCode(s.host) = "throw"

\* the checks of one unique URL, audit.js:1431-1461
UrlItems(s, fetchApp) ==
    LET category == "Landing Pages"
        context == IF s.from = "ad" THEN "Ad in AG" ELSE "Keyword in AG"
    IN  (IF ~startsWithHttps(s)
         THEN <<<<category, "Secure URLs (HTTPS)", "Fail", <<UrlOf(s), context>>,
                  "Update landing page URL to use HTTPS.">>>>
         ELSE <<>>)
        \o (IF fetchApp
            THEN TryCatch(
                     Call(responseCode(s.host))
                     \o (IF ResponseNumber(responseCode(s.host)) >= 400
                         THEN <<<<category, "Potential Broken Link", "Fail",
                                  <<UrlOf(s), context, responseCode(s.host)>>,
                                  "Verify the page loads correctly.">>>>
                         ELSE <<>>),
                     <<<<category, "URL Fetch Error", FetchErrorStatus,
                         <<UrlOf(s), context, "error">>,
                         "Verify the page loads correctly. Could be a temporary issue.">>>>)
            ELSE <<>>)

\* the Logger warnings of the two URL loops, audit.js:1401, 1416
UrlWarnings(d, from) ==
    LET failed == SelectSeq(d.sources, LAMBDA s : s.from = from /\ s.get = "throw")
    IN  [i \in DOMAIN failed |-> LogOnly("Landing Pages", "Could not get Final URL", <<from>>)]

auditLandingPages(d, sampleSize) ==
    LET category == "Landing Pages"
        checked == checkedSources(d, sampleSize)
        urlsCheckedCount == Len(checked)
        httpUrls == Len(SelectSeq(checked, LAMBDA s : ~startsWithHttps(s)))
        potentiallyBrokenUrls ==
            IF d.fetchApp THEN Len(SelectSeq(checked, isBroken)) ELSE 0
    IN  Guarded(category,
            (IF ~d.fetchApp
             THEN <<<<category, "URL Fetch Check", "Error",
                      <<"UrlFetchApp service is not available.">>,
                      "Cannot perform broken link checks.">>>>
             ELSE <<>>)
            \o Call(d.adIterator)
            \o UrlWarnings(d, "ad")
            \o Call(d.keywordIterator)
            \o UrlWarnings(d, "keyword")
            \o <<Info(category, "Sitelink URL Check",
                      <<"Manual check recommended for Sitelink URLs.">>,
                      "Verify links within Sitelink extensions in the UI.")>>
            \o Concat([k \in DOMAIN checked |-> UrlItems(checked[k], d.fetchApp)])
            \o (IF urlsCheckedCount > 0
                THEN (IF httpUrls = 0
                      THEN <<<<category, "Secure URLs (HTTPS)", "Pass",
                               <<ToString(urlsCheckedCount)>>,
                               "Maintain HTTPS for all landing pages.">>>>
                      ELSE <<>>)
                     \o (IF potentiallyBrokenUrls = 0
                         THEN <<<<category, "Broken Links Check", "Pass",
                                  <<ToString(urlsCheckedCount)>>, "Continue monitoring links.">>>>
                         ELSE <<>>)
                ELSE <<Info(category, "General Check", <<"No unique Final URLs found.">>,
                            "Ensure ads/keywords have valid final URLs.")>>)
            \o <<ManualReview(category, "Mobile-Friendly Check", "Use the Mobile-Friendly Test."),
                 ManualReview(category, "Landing Page Alignment", "Ensure content is relevant."),
                 ManualReview(category, "Headlines & CTAs on Page", "Verify clear headlines."),
                 ManualReview(category, "Page Load Speed", "Use PageSpeed Insights."),
                 ManualReview(category, "Keyword Incorporation", "Check keywords on page.")>>)

---------------------------------------------------------------------------
(* auditAudienceTargeting, audit.js:1508-1634 *)

\* what the targeting of one campaign or ad group answers: "audience" is one audience
\* without a user list, "userList" one with a user list, "excluded" one exclusion,
\* "both" a user list audience and an exclusion, "throw" when audiences() raises,
\* "audienceThenThrow" when one audience is read and excludedAudiences() raises
AudTargets(o) == IF o \in {"audience", "userList", "both", "audienceThenThrow"} THEN 1 ELSE 0
AudUserLists(o) == IF o \in {"userList", "both"} THEN 1 ELSE 0
AudExclusions(o) == IF o \in {"excluded", "both"} THEN 1 ELSE 0
AudThrows(o) == o \in {"throw", "audienceThenThrow"}

AudienceCampaigns ==
    {[name |-> c[1], campaign |-> c[2], iterator |-> c[3], adGroups |-> c[4]] :
        c \in {<<"ok", "both", "ok", <<"none">>>>,
               <<"ok", "none", "ok", <<"none">>>>,
               <<"ok", "none", "ok", <<"both">>>>,
               <<"ok", "audience", "ok", <<"excluded">>>>,
               <<"ok", "userList", "ok", <<>>>>,
               <<"ok", "throw", "ok", <<"none">>>>,
               <<"ok", "audienceThenThrow", "ok", <<>>>>,
               <<"ok", "both", "ok", <<"throw">>>>,
               <<"ok", "both", "throw", <<>>>>,
               <<"throw", "both", "ok", <<>>>>}}

AudienceInputs ==
    {[iterator |-> "throw", campaigns |-> <<>>]}
    \cup {[iterator |-> "ok", campaigns |-> cs] : cs \in SeqsUpTo(AudienceCampaigns, MaxEntities)}

campaignHasAudienceTarget(c) ==
    AudTargets(c.campaign) = 1 \/ \E j \in DOMAIN c.adGroups : AudTargets(c.adGroups[j]) = 1

campaignHasAudienceExclusion(c) ==
    AudExclusions(c.campaign) = 1 \/ \E j \in DOMAIN c.adGroups : AudExclusions(c.adGroups[j]) = 1

\* the instances a counter saw over all campaigns and their ad groups
AudienceTotal(d, Kind(_)) ==
    SumSeq([i \in DOMAIN d.campaigns |->
              Kind(d.campaigns[i].campaign)
              + SumSeq([j \in DOMAIN d.campaigns[i].adGroups |->
                          Kind(d.campaigns[i].adGroups[j])])])

\* the body of the campaign loop, audit.js:1533-1616
AudienceCampaign(c, i) ==
    LET category == "Audience Targeting"
        campaignName == CampaignName(i)
    IN  Call(c.name)
        \o TryCatch(IF AudThrows(c.campaign) THEN <<THROW>> ELSE <<>>,
                    <<<<category, "Campaign Audience Check", "Error", <<campaignName, "error">>,
                        "Check permissions/campaign type.">>>>)
        \o <<Info(category, "Campaign Demographics Check", <<campaignName>>,
                  "Review demographic targeting (Age, Gender) in the UI.")>>
        \o Call(c.iterator)
        \o Concat([j \in DOMAIN c.adGroups |->
                     TryCatch(IF AudThrows(c.adGroups[j]) THEN <<THROW>> ELSE <<>>,
                              <<<<category, "Ad Group Audience Check", "Error",
                                  <<AdGroupName(j), "error">>, "Check permissions.">>>>)])
        \o (IF ~campaignHasAudienceTarget(c)
            THEN <<<<category, "Audience Targeting Usage", "Warn", <<campaignName>>,
                     "Consider adding relevant audiences or demographic refinements.">>>>
            ELSE <<>>)
        \o (IF ~campaignHasAudienceExclusion(c)
            THEN <<<<category, "Audience Exclusions", "Warn", <<campaignName>>,
                     "Consider excluding irrelevant audiences or demographics.">>>>
            ELSE <<>>)

auditAudienceTargeting(d) ==
    LET category == "Audience Targeting"
        cs == d.campaigns
        audiencesTargeted == AudienceTotal(d, AudTargets)
        audienceExclusions == AudienceTotal(d, AudExclusions)
        remarketingListsUsed == AudienceTotal(d, AudUserLists)
    IN  Guarded(category,
            <<ManualReview(category, "Remarketing/User Lists Available",
                           "Check available User Lists (Audiences) in the UI.")>>
            \o Call(d.iterator)
            \o Concat([i \in DOMAIN cs |-> AudienceCampaign(cs[i], i)])
            \o <<Info(category, "Audience Segments Targeted", <<ToString(audiencesTargeted)>>,
                      "Ensure targeted audiences align with campaign goals."),
                 ManualReview(category, "Demographic Targeting",
                              "Review demographic targeting settings in the UI."),
                 Info(category, "Audience/Demographic Exclusions",
                      <<ToString(audienceExclusions)>>,
                      "Verify audience exclusions are correctly removing irrelevant traffic."),
                 CountStatus(category, "Remarketing Lists Used", remarketingListsUsed,
                             "Ensure lists are sufficiently large and targeted appropriately.",
                             "Consider implementing or expanding remarketing efforts."),
                 ManualReview(category, "Audience Performance Analysis",
                              "Analyze performance reports segmented by audience.")>>)

---------------------------------------------------------------------------
(* auditPerformanceMetrics, audit.js:1641-1775 *)

\* CONFIG thresholds, audit.js:15-18.  Rates are in hundredths of a percent (MIN_CTR
\* 0.01 is 100), impression shares in percent, money in whole units.
MAX_CPA == 50
MIN_CTR == 100
MIN_CONVERSION_RATE == 100
MIN_IMPRESSION_SHARE == 60

\* what one accessor of the account statistics answers
Got(v) == [get |-> "ok", value |-> v]
Raised == [get |-> "throw", value |-> 0]
GotNull == [get |-> "null", value |-> 0]

MetricNames ==
    <<"ctr", "avgCpc", "convRate", "conversions", "cost", "imprShare", "isLostRank", "isLostBudget">>

\* the names metricErrors.push records, audit.js:1658-1666
MetricErrorNames ==
    [ctr |-> "CTR", avgCpc |-> "AvgCPC", convRate |-> "ConvRate", conversions |-> "Conversions",
     cost |-> "Cost", imprShare |-> "ImprShare", isLostRank |-> "ISLostRank",
     isLostBudget |-> "ISLostBudget"]

PerformanceBase ==
    [stats |-> "ok", ctr |-> Got(200), avgCpc |-> Got(3), convRate |-> Got(200),
     conversions |-> Got(2), cost |-> Got(100), imprShare |-> Got(80),
     isLostRank |-> Got(5), isLostBudget |-> Got(5)]

\* the statistics the account answers: the base, one accessor changed, and a few
\* accounts with several changed
PerformanceInputs ==
    {[PerformanceBase EXCEPT !.stats = "throw"]}
    \cup {[PerformanceBase EXCEPT ![m] = Raised] : m \in Range(MetricNames)}
    \cup {[PerformanceBase EXCEPT !.avgCpc = GotNull]}
    \cup {[PerformanceBase EXCEPT !.ctr = Got(v)] : v \in {50, 100}}
    \cup {[PerformanceBase EXCEPT !.convRate = Got(v)] : v \in {50, 100}}
    \cup {[PerformanceBase EXCEPT !.conversions = Got(v)] : v \in {0, 1, 3}}
    \cup {[PerformanceBase EXCEPT !.imprShare = Got(v)] : v \in {0, 50, 60}}
    \cup {[PerformanceBase EXCEPT !.isLostRank = Got(v)] : v \in {0, 20, 25}}
    \cup {[PerformanceBase EXCEPT !.isLostBudget = Got(v)] : v \in {0, 10, 15}}
    \cup {[PerformanceBase EXCEPT !.imprShare = i, !.isLostRank = i, !.isLostBudget = i] :
            i \in {Got(0), Raised}}
    \cup {[PerformanceBase EXCEPT !.ctr = Raised, !.imprShare = Got(0), !.isLostRank = Got(0),
                                  !.isLostBudget = Got(0)]}
    \cup {[stats |-> "ok", ctr |-> Raised, avgCpc |-> Raised, convRate |-> Raised,
            conversions |-> Raised, cost |-> Raised, imprShare |-> Raised,
            isLostRank |-> Raised, isLostBudget |-> Raised]}

\* the variable after try { x = stats.getX(); } catch (e) { ... }: 0 when the read raised
Metric(d, m) == IF d[m].get = "ok" THEN d[m].value ELSE 0

metricErrors(d) ==
    LET failed == SelectSeq(MetricNames, LAMBDA m : d[m].get = "throw")
    IN  [i \in DOMAIN failed |-> MetricErrorNames[failed[i]]]

Failed(d, m) == d[m].get = "throw"

TwoDigits(n) == IF n < 10 THEN "0" \o ToString(n) ELSE ToString(n)

\* (rate * 100).toFixed(2) of a rate held in hundredths of a percent
PercentFixed2(rate) == ToString(rate \div 100) \o "." \o TwoDigits(rate % 100)

\* (cost / conversions).toFixed(2)
RatioFixed2(cost, conversions) ==
    LET cents == (cost * 200 + conversions) \div (2 * conversions)
    IN  ToString(cents \div 100) \o "." \o TwoDigits(cents % 100)

Skipped(category, item) ==
    Info(category, item, <<"check skipped due to retrieval error.">>, "Review manually.")

\* a check of a value against a threshold, "Pass" when within: audit.js:1683-1687 and alike
Threshold(category, item, within, other, shown, limit) ==
    <<category, item, IF within THEN "Pass" ELSE other, <<shown, limit>>,
      IF within THEN "Within threshold." ELSE "Investigate.">>

\* the impression share findings, audit.js:1731-1769
ImpressionShareItems(d) ==
    LET category == "Performance Metrics"
        imprShare == Metric(d, "imprShare")
        lostRank == Metric(d, "isLostRank")
        lostBudget == Metric(d, "isLostBudget")
    IN  IF ~Failed(d, "imprShare") \/ ~Failed(d, "isLostRank") \/ ~Failed(d, "isLostBudget")
        THEN IF imprShare > 0 \/ lostRank > 0 \/ lostBudget > 0
             THEN <<IF ~Failed(d, "imprShare")
                    THEN Threshold(category, "Search Impression Share",
                                   imprShare >= MIN_IMPRESSION_SHARE, "Warn",
                                   ToFixed1(imprShare), ToString(MIN_IMPRESSION_SHARE))
                    ELSE Skipped(category, "Search Impression Share"),
                    IF ~Failed(d, "isLostRank")
                    THEN Threshold(category, "Search IS Lost (Rank)",
                                   lostRank <= MAX_IMPRESSION_SHARE_LOST_RANK, "Fail",
                                   ToFixed1(lostRank), ToString(MAX_IMPRESSION_SHARE_LOST_RANK))
                    ELSE Skipped(category, "Search IS Lost (Rank)"),
                    IF ~Failed(d, "isLostBudget")
                    THEN Threshold(category, "Search IS Lost (Budget)",
                                   lostBudget <= MAX_IMPRESSION_SHARE_LOST_BUDGET, "Fail",
                                   ToFixed1(lostBudget),
                                   ToString(MAX_IMPRESSION_SHARE_LOST_BUDGET))
                    ELSE Skipped(category, "Search IS Lost (Budget)")>>
             ELSE IF Len(metricErrors(d)) = 0
             THEN <<Info(category, "Search Impression Share",
                         <<"Search Impression Share data not available.">>,
                         "N/A for this check.")>>
             ELSE <<>>
        ELSE <<Skipped(category, "Search Impression Share")>>

\* the findings after the statistics were retrieved, audit.js:1654-1773
PerformanceItems(d) ==
    LET category == "Performance Metrics"
        ctr == Metric(d, "ctr")
        convRate == Metric(d, "convRate")
        conversions == Metric(d, "conversions")
        cost == Metric(d, "cost")
    IN  (IF Len(metricErrors(d)) > 0
         THEN <<<<category, "Metric Retrieval", "Warn", metricErrors(d),
                  "Checks involving these metrics may be incomplete.">>>>
         ELSE <<>>)
        \o <<IF ~Failed(d, "ctr")
             THEN Threshold(category, "Click-Through Rate (CTR)", ctr >= MIN_CTR, "Fail",
                            PercentFixed2(ctr), PercentFixed2(MIN_CTR))
             ELSE Skipped(category, "Click-Through Rate (CTR)")>>
        \o (IF ~Failed(d, "avgCpc")
            THEN IF d.avgCpc.get = "null"
                 THEN <<THROW>>
                 ELSE <<Info(category, "Average Cost-Per-Click (CPC)",
                             <<ToFixed2(Metric(d, "avgCpc"))>>, "Monitor CPC trends.")>>
            ELSE <<Skipped(category, "Average Cost-Per-Click (CPC)")>>)
        \o <<IF ~Failed(d, "convRate")
             THEN Threshold(category, "Conversion Rate", convRate >= MIN_CONVERSION_RATE, "Fail",
                            PercentFixed2(convRate), PercentFixed2(MIN_CONVERSION_RATE))
             ELSE Skipped(category, "Conversion Rate"),
             IF ~Failed(d, "conversions") /\ ~Failed(d, "cost")
             THEN IF conversions > 0
                  THEN Threshold(category, "Cost Per Acquisition (CPA)",
                                 cost <= MAX_CPA * conversions, "Fail",
                                 RatioFixed2(cost, conversions), ToFixed2(MAX_CPA))
                  ELSE Info(category, "Cost Per Acquisition (CPA)",
                            <<"No conversions recorded in the last 30 days.">>,
                            "Ensure conversion tracking is working correctly.")
             ELSE Skipped(category, "Cost Per Acquisition (CPA)"),
             Info(category, "Return On Ad Spend (ROAS)",
                  <<"ROAS check skipped (getConversionValue unavailable).">>,
                  "Implement conversion value tracking.")>>
        \o ImpressionShareItems(d)
        \o <<Info(category, "Granular Performance",
                  <<"Account-level metrics provide an overview.">>,
                  "Analyze performance at the campaign, ad group, keyword, and audience levels.")>>

\* the function has no catch around its checks: only getStatsFor is guarded, and a
\* failure there records the Error finding and returns, audit.js:1646-1651
auditPerformanceMetrics(d) ==
    IF d.stats = "throw"
    THEN [rows |-> <<<<"Performance Metrics", "General Check", "Error", <<"error">>,
                       "Could not retrieve account performance metrics.">>>>,
          exc |-> "caught"]
    ELSE ModuleResult(PerformanceItems(d))

---------------------------------------------------------------------------
(* auditCampaignOptimization, audit.js:1783-1826 *)

\* what getName() of each enabled campaign answers: "ok" or "throw"
OptimizationInputs ==
    {[iterator |-> "throw", campaigns |-> <<>>]}
    \cup {[iterator |-> "ok", campaigns |-> cs] : cs \in SeqsUpTo({"ok", "throw"}, MaxEntities)}

\* the body of the campaign loop, audit.js:1796-1807
OptimizationCampaign(c, i) ==
    LET category == "Campaign Optimization"
        campaignName == CampaignName(i)
    IN  Call(c)
        \o <<Info(category, "Campaign Performance Check", <<campaignName>>,
                  "Review campaign performance manually using Google Ads reports."),
             Info(category, "Ad Schedule Optimization", <<campaignName>>,
                  "Analyze performance by day/hour in the UI."),
             Info(category, "Geo-targeting Optimization", <<campaignName>>,
                  "Analyze performance by location in the UI."),
             Info(category, "Device Optimization", <<campaignName>>,
                  "Analyze performance by device in the UI.")>>

auditCampaignOptimization(d) ==
    LET category == "Campaign Optimization"
        cs == d.campaigns
        campaignsChecked == Len(cs)
    IN  Guarded(category,
            Call(d.iterator)
            \o Concat([i \in DOMAIN cs |-> OptimizationCampaign(cs[i], i)])
            \o (IF campaignsChecked > 0
                THEN <<Info(category, "Underperforming Campaigns",
                            <<"Automated check skipped due to API limitations.">>,
                            "Review campaign performance manually."),
                       Info(category, "High Performing Campaign Budget",
                            <<"Automated check skipped due to API limitations.">>,
                            "Review performance and budget limitations manually.")>>
                ELSE <<Info(category, "General Check",
                            <<"No enabled campaigns found to check optimization status.">>,
                            "N/A")>>))

---------------------------------------------------------------------------
(* auditAutomationTools, audit.js:1833-1861; auditCompetitiveAnalysis, audit.js:1868-1882; *)
(* auditReportingInsights, audit.js:1888-1901: they read nothing of the data source      *)

auditAutomationTools ==
    LET category == "Automation & Tools"
    IN  Guarded(category,
            <<ManualReview(category, "Automated Rules", "Review existing automated rules."),
              ManualReview(category, "Scripts", "Review other active Google Ads Scripts."),
              Info(category, "This Audit Script", <<"This script is running.">>,
                   "Schedule this script to run regularly."),
              ManualReview(category, "Google Ads Recommendations", "Review the Recommendations tab."),
              ManualReview(category, "Third-Party Tools", "Ensure they are correctly integrated."),
              ManualReview(category, "Automation Alignment", "Avoid conflicting automations.")>>)

auditCompetitiveAnalysis ==
    LET category == "Competitive Analysis"
    IN  Guarded(category,
            <<ManualReview(category, "Auction Insights Report", "Review the Auction Insights report."),
              ManualReview(category, "Competitor Ad Positioning", "Use Auction Insights."),
              ManualReview(category, "Identifying Gaps", "Analyze competitor strategies."),
              ManualReview(category, "Differentiation Opportunities", "Identify ways to differentiate.")>>)

auditReportingInsights ==
    LET category == "Reporting & Insights"
    IN  Guarded(category,
            <<Info(category, "Custom Dashboards", <<"Manual Check Recommended">>,
                   "Consider creating custom dashboards."),
              Info(category, "Key Metric Tracking", <<"Script Provides Data">>,
                   "Track these metrics over time."),
              Info(category, "Trend & Anomaly Identification", <<"Manual Analysis Required">>,
                   "Regularly analyze performance data."),
              Info(category, "Report Sharing", <<"Manual Process">>,
                   "Share audit summaries with stakeholders."),
              Info(category, "Actionable Insights Documentation", <<"Manual Process">>,
                   "Document insights gained from audits.")>>)

\* the else branch with a label that getSheetNameForCategory has no case for
landingPagesSkippedUnlisted ==
    ModuleResult(<<<<"Landing Page", "Landing Page Checks", "Skipped",
                     <<"CONFIG.CHECK_LANDING_PAGES is false">>, "Enable in CONFIG if needed.">>>>)

\* the else branch of main() when CONFIG.CHECK_LANDING_PAGES is false, audit.js:83-85
landingPagesSkipped ==
    ModuleResult(<<<<"Landing Pages", "Landing Page Checks", "Skipped",
                     <<"CONFIG.CHECK_LANDING_PAGES is false">>, "Enable in CONFIG if needed.">>>>)

---------------------------------------------------------------------------
(* The spreadsheet.  A sheet is the sequence of the rows below its header  *)
(* row; a spreadsheet is a function from the names of its sheets; the      *)
(* spreadsheet that does not exist yet has no sheet.                        *)

\* the steps of initializeSpreadsheet that can raise, in order; "sheet" raises inside
\* the forEach, at the sheet numbered faults.sheet
InitSteps == <<"services", "getFilesByName", "open", "getUrl", "getSheets", "sheet">>

\* a clearContent that clears nothing
clearContentNothing(rows) == rows

\* a clearContent of the first row below the header only
clearContentFirstRow(rows) == IF rows = <<>> THEN <<>> ELSE Tail(rows)

\* the rows below the header after getRange(2, 1, getLastRow() - 1, ...).clearContent(),
\* audit.js:148-150, 264-266, 368-370, 375-377: none
clearContent(rows) == <<>>

\* the rows below the header after getRange(2, 1, results.length, ...).setValues(results),
\* audit.js:379-380: the first rows are overwritten, the rows below them stay
setValues(rows, results) == results \o SubSeq(rows, Len(results) + 1, Len(rows))

\* the first n required sheets exist and are cleared below the header, audit.js:146-156
ProvisionSheets(sh, n) ==
    LET done == {requiredSheets[k] : k \in 1..n}
    IN  [name \in DOMAIN sh \cup done |->
            IF name \notin done THEN sh[name]
            ELSE IF name \in DOMAIN sh THEN clearContent(sh[name])
            ELSE <<>>]

\* ALL_RESULTS[sheetName] = [] for the first n required sheets, audit.js:172
ResetBuckets(all, n) ==
    LET done == {requiredSheets[k] : k \in 1..n}
    IN  [name \in DOMAIN all \cup done |-> IF name \in done THEN <<>> ELSE all[name]]

\* SpreadsheetApp.open or create: a created spreadsheet has one sheet, renamed to Overview
OpenOrCreate(sh) ==
    IF DOMAIN sh = {} THEN [name \in {SHEET_NAMES.OVERVIEW} |-> <<>>] ELSE sh

\* a catch block of initializeSpreadsheet that does not reset the globals
catchInitKeepId(r) ==
    [r EXCEPT !.log = Append(@, Note("error", "Error initializing spreadsheet"))]

\* the catch block of initializeSpreadsheet, audit.js:178-188: r is what the try
\* block had done when it raised
catchInit(r) ==
    [r EXCEPT !.id = NULL, !.url = NULL,
              !.log = Append(@, Note("error", "Error initializing spreadsheet"))]

\* initializeSpreadsheet, audit.js:108-189: f is the step that raises ("none" for no
\* step), k the sheet at which the forEach raises
initializeSpreadsheet(g, sh, f, k) ==
    LET opened == Note("init", IF DOMAIN sh = {} THEN "Created new spreadsheet"
                               ELSE "Using existing spreadsheet")
        n == IF f = "sheet" THEN k - 1 ELSE Len(requiredSheets)
        start == [id |-> NULL, url |-> NULL, sheets |-> sh, all |-> g.all, log |-> g.log]
        withId == [start EXCEPT !.id = "id", !.sheets = OpenOrCreate(sh),
                                !.log = Append(@, opened)]
        withUrl == [withId EXCEPT !.url = "url"]
        provisioned == [withUrl EXCEPT !.sheets = ProvisionSheets(@, n),
                                       !.all = ResetBuckets(@, n)]
    IN  IF f \in {"services", "getFilesByName", "open"} THEN catchInit(start)
        ELSE IF f = "getUrl" THEN catchInit(withId)
        ELSE IF f = "getSheets" THEN catchInit(withUrl)
        ELSE IF f = "sheet" THEN catchInit(provisioned)
        ELSE provisioned

\* a count of the rows of a bucket that takes Error rows for Fail rows
categoryFailsLoose(bucket) ==
    Len(SelectSeq(bucket, LAMBDA row : row[3] \in {"Fail", "Error"}))

\* the Fail and Warn rows of a bucket, audit.js:291-294
categoryFails(bucket) == Len(SelectSeq(bucket, LAMBDA row : row[3] = "Fail"))
categoryWarns(bucket) == Len(SelectSeq(bucket, LAMBDA row : row[3] = "Warn"))

\* the sheets that have a bucket, in alphabetical order
countedSheetsAlphabetical(all) ==
    SelectSeq(<<SHEET_NAMES.ADS_EXTENSIONS, SHEET_NAMES.KEYWORDS_ADGROUPS,
                SHEET_NAMES.MANUAL_CHECKS, SHEET_NAMES.PERFORMANCE,
                SHEET_NAMES.STRUCTURE_SETTINGS>>,
              LAMBDA name : name \in DOMAIN all)

\* the sheets of sheetOrder that have a bucket, audit.js:287-288
countedSheets(all) == SelectSeq(sheetOrder, LAMBDA name : name \in DOMAIN all)

\* issueCounts, as the lines written for it, audit.js:297-311
issueCounts(all) ==
    LET areas == SelectSeq(countedSheets(all),
                           LAMBDA name : categoryFails(all[name]) > 0
                                         \/ categoryWarns(all[name]) > 0)
    IN  [i \in DOMAIN areas |->
            <<areas[i],
              <<"Fails: " \o ToString(categoryFails(all[areas[i]]))
                \o ", Warns: " \o ToString(categoryWarns(all[areas[i]]))>>,
              "See sheet for details.">>]

failCount(all) ==
    LET names == countedSheets(all)
    IN  SumSeq([i \in DOMAIN names |-> categoryFails(all[names[i]])])

warnCount(all) ==
    LET names == countedSheets(all)
    IN  SumSeq([i \in DOMAIN names |-> categoryWarns(all[names[i]])])

\* the rows of the summary section, audit.js:272-312.  The second cell of an overview
\* row is kept as a sequence, as the details of a finding are.
SummaryRows(all) ==
    <<<<"--- AUDIT SUMMARY ---", <<>>, "">>,
      <<"Total Critical Issues (Fail)", <<ToString(failCount(all))>>,
        "Review items marked 'Fail' below and in respective sheets.">>,
      <<"Total Warnings (Warn)", <<ToString(warnCount(all))>>,
        "Review items marked 'Warn' in respective sheets.">>,
      <<"Issue Counts by Area:", <<>>, "">>>>
    \o issueCounts(all)
    \o <<<<"", <<>>, "">>>>

CriticalHeader == <<"--- CRITICAL ISSUES (FAIL) ---", <<>>, "">>

\* the row written for one critical issue, audit.js:323
CriticalRow(issue) == <<issue[1] \o " - " \o issue[2], issue[4], issue[5]>>

\* the rows of the critical issues section, audit.js:316-328
CriticalRows(critical) ==
    <<CriticalHeader>>
    \o (IF Len(critical) > 0
        THEN [i \in DOMAIN critical |-> CriticalRow(critical[i])]
        ELSE <<<<"No critical 'Fail' issues found.", <<>>, "">>>>)

\* populateOverviewSheet, audit.js:256-340: f is "none", "openById" (the spreadsheet
\* cannot be opened) or "appendRow" (raises when the critical section is begun)
populateOverviewSheet(g, id, sh, f) ==
    IF id = NULL THEN [sheets |-> sh, log |-> g.log]
    ELSE LET started == Append(g.log, Note("overview", "Populating Overview Sheet..."))
             failed == Append(started, Note("error", "Error populating overview sheet"))
         IN  IF f = "openById" \/ SHEET_NAMES.OVERVIEW \notin DOMAIN sh
             THEN [sheets |-> sh, log |-> failed]
             ELSE IF f = "appendRow"
             THEN [sheets |-> [sh EXCEPT ![SHEET_NAMES.OVERVIEW] =
                                             clearContent(@) \o SummaryRows(g.all)],
                   log |-> failed]
             ELSE [sheets |-> [sh EXCEPT ![SHEET_NAMES.OVERVIEW] =
                                             clearContent(@) \o SummaryRows(g.all)
                                             \o CriticalRows(g.critical)],
                   log |-> started]


\* the keys of ALL_RESULTS in the order for...in visits them: the order in which
\* initializeSpreadsheet created them
bucketNames(all) == SelectSeq(requiredSheets, LAMBDA name : name \in DOMAIN all)

\* a dump that names the buckets and leaves their rows out
DumpResultsNames(all) ==
    [i \in DOMAIN bucketNames(all) |-> Note("dump", bucketNames(all)[i])]

\* the log lines written when writing fails, audit.js:404-410
DumpResults(all) ==
    Concat([i \in DOMAIN bucketNames(all) |->
              <<Note("dump", bucketNames(all)[i])>>
              \o [j \in DOMAIN all[bucketNames(all)[i]] |->
                    LogLine("dump", all[bucketNames(all)[i]][j])]])

\* writeResultsToSpreadsheet, audit.js:346-413: f is "none", "openById", or the name of
\* the sheet whose setValues raises
writeResultsToSpreadsheet(g, id, sh, f) ==
    IF id = NULL
    THEN [sheets |-> sh, log |-> Append(g.log, Note("write", "Spreadsheet not initialized."))]
    ELSE LET names == SelectSeq(bucketNames(g.all), LAMBDA name : name # SHEET_NAMES.OVERVIEW)
             Raises(i) == names[i] = f /\ names[i] \in DOMAIN sh /\ g.all[names[i]] # <<>>
             stop == IF f = "openById" THEN 0
                     ELSE IF \E i \in DOMAIN names : Raises(i)
                     THEN CHOOSE i \in DOMAIN names : Raises(i)
                     ELSE Len(names) + 1
             Index(name) == CHOOSE i \in DOMAIN names : names[i] = name
             visited == SelectSeq(names, LAMBDA name : Index(name) < stop)
         IN  [sheets |->
                 [name \in DOMAIN sh |->
                    IF name \in Range(names) /\ Index(name) < stop
                    THEN setValues(clearContent(sh[name]), g.all[name])
                    ELSE IF name \in Range(names) /\ Index(name) = stop
                    THEN clearContent(sh[name])
                    ELSE sh[name]],
              log |->
                 g.log
                 \o [i \in DOMAIN visited |->
                       Note("write", IF visited[i] \notin DOMAIN sh THEN "Sheet not found"
                                     ELSE IF g.all[visited[i]] = <<>> THEN "No results to write"
                                     ELSE "Successfully wrote findings")]
                 \o (IF stop <= Len(names)
                     THEN <<Note("error", "Error writing results to spreadsheet")>>
                          \o DumpResults(g.all)
                     ELSE <<>>)]

---------------------------------------------------------------------------
(* The runs the model explores *)

\* a row a previous run left in a detail sheet, and one it left in the overview
MaxOldRows == 60

OldRow == <<"Keywords", "Old finding", "Fail", <<"old">>, "old">>
OldOverviewRow == <<"Old line", <<"old">>, "old">>

NoSpreadsheet == [name \in {} |-> <<>>]

\* the spreadsheet of a previous run on the same day
OldSpreadsheet ==
    [name \in Range(requiredSheets) |->
        IF name = SHEET_NAMES.OVERVIEW THEN <<OldOverviewRow, OldOverviewRow>>
        ELSE <<OldRow, OldRow>>]

\* a spreadsheet of that name some of whose sheets were deleted
PartialSpreadsheet ==
    [name \in {SHEET_NAMES.OVERVIEW, SHEET_NAMES.KEYWORDS_ADGROUPS} |-> OldSpreadsheet[name]]

\* the spreadsheet of a previous run that found more than any run of the model does
LongSpreadsheet ==
    [name \in Range(requiredSheets) |->
        IF name = SHEET_NAMES.OVERVIEW THEN [i \in 1..MaxOldRows |-> OldOverviewRow]
        ELSE [i \in 1..MaxOldRows |-> OldRow]]

Spreadsheets == {NoSpreadsheet, OldSpreadsheet, PartialSpreadsheet}

NoFaults == [init |-> "none", sheet |-> 1, populate |-> "none", write |-> "none"]

\* where the spreadsheet services raise: at one place of one function
Faults ==
    {NoFaults}
    \cup {[NoFaults EXCEPT !.init = f] : f \in Range(InitSteps) \ {"sheet"}}
    \cup {[NoFaults EXCEPT !.init = "sheet", !.sheet = k] : k \in 1..Len(requiredSheets)}
    \cup {[NoFaults EXCEPT !.populate = f] : f \in {"openById", "appendRow"}}
    \cup {[NoFaults EXCEPT !.write = f] : f \in {"openById"} \cup DetailSheets}

DefaultConfig ==
    [CHECK_LANDING_PAGES |-> TRUE, LANDING_PAGE_SAMPLE_SIZE |-> LANDING_PAGE_SAMPLE_SIZE]

\* an account with one enabled campaign, ad group, keyword and ad, in order but for
\* the impression share the campaign loses to its budget
BaseSource ==
    [settings |-> [account |-> "ok", iterator |-> "ok",
                   campaigns |-> <<[ip |-> "ok", n |-> 2, name |-> "ok"]>>],
     structure |-> [iterator |-> "ok", campaigns |-> <<[name |-> "good", budget |-> "ok"]>>],
     keywords |-> [KeywordsBase EXCEPT !.keywords =
                      <<[adGroup |-> 1, text |-> "shoes", matchType |-> "EXACT", qs |-> "7"]>>],
     adGroups |-> [iterator |-> "ok",
                   adGroups |-> <<[name |-> "good", keywords |-> "5", ads |-> "3"]>>],
     adCopy |-> [iterator |-> "ok",
                 ads |-> <<[adGroup |-> 1, type |-> "RESPONSIVE_SEARCH_AD", search |-> TRUE,
                            policy |-> "APPROVED"]>>],
     extensions |-> [account |-> "ok", callouts |-> "2", iterator |-> "ok",
                     campaigns |-> <<[name |-> "ok", campaign |-> "both", iterator |-> "ok",
                                      adGroups |-> <<"none">>]>>],
     bidding |-> [iterator |-> "ok",
                  campaigns |-> <<[name |-> "ok", strategy |-> "TARGET_CPA", stats |-> "ok",
                                   lostBudget |-> "15", lostRank |-> "5",
                                   adjustments |-> "1"]>>],
     quality |-> [iterator |-> "ok",
                  keywords |-> <<[text |-> "ok", qs |-> "7", adRelevance |-> "AVERAGE",
                                  expCtr |-> "AVERAGE", landingPageExp |-> "AVERAGE"]>>],
     landing |-> [fetchApp |-> TRUE, adIterator |-> "ok", keywordIterator |-> "ok",
                  sources |-> <<[from |-> "ad", get |-> "ok", scheme |-> "https",
                                 host |-> "ok.example"]>>],
     audience |-> [iterator |-> "ok",
                   campaigns |-> <<[name |-> "ok", campaign |-> "both", iterator |-> "ok",
                                    adGroups |-> <<"none">>]>>],
     performance |-> PerformanceBase,
     optimization |-> [iterator |-> "ok", campaigns |-> <<"ok">>]]

\* the accounts explored: the base account with what one module reads changed
Sources ==
    {[BaseSource EXCEPT !.settings = d] : d \in SettingsInputs}
    \cup {[BaseSource EXCEPT !.structure = d] : d \in StructureInputs}
    \cup {[BaseSource EXCEPT !.keywords = d] : d \in KeywordsInputs}
    \cup {[BaseSource EXCEPT !.adGroups = d] : d \in AdGroupsInputs}
    \cup {[BaseSource EXCEPT !.adCopy = d] : d \in AdCopyInputs}
    \cup {[BaseSource EXCEPT !.extensions = d] : d \in ExtensionsInputs}
    \cup {[BaseSource EXCEPT !.bidding = d] : d \in BiddingInputs}
    \cup {[BaseSource EXCEPT !.quality = d] : d \in QualityInputs}
    \cup {[BaseSource EXCEPT !.landing = d] : d \in LandingInputs}
    \cup {[BaseSource EXCEPT !.audience = d] : d \in AudienceInputs}
    \cup {[BaseSource EXCEPT !.performance = d] : d \in PerformanceInputs}
    \cup {[BaseSource EXCEPT !.optimization = d] : d \in OptimizationInputs}

\* the runs explored: an account of Sources with the default CONFIG, a new spreadsheet
\* and no fault; the base account with a changed CONFIG; the base account with a
\* spreadsheet and a fault
Runs ==
    {[src |-> s, CONFIG |-> DefaultConfig, sheets |-> NoSpreadsheet, faults |-> NoFaults] :
        s \in Sources}
    \cup {[src |-> [BaseSource EXCEPT !.landing = d],
           CONFIG |-> [DefaultConfig EXCEPT !.CHECK_LANDING_PAGES = FALSE],
           sheets |-> NoSpreadsheet, faults |-> NoFaults] :
            d \in {l \in LandingInputs : l.fetchApp /\ Len(l.sources) <= 1}}
    \cup {[src |-> [BaseSource EXCEPT !.landing = d],
           CONFIG |-> [DefaultConfig EXCEPT !.LANDING_PAGE_SAMPLE_SIZE = 1],
           sheets |-> NoSpreadsheet, faults |-> NoFaults] :
            d \in {l \in LandingInputs : Len(l.sources) > 1}}
    \cup {[src |-> BaseSource, CONFIG |-> DefaultConfig, sheets |-> sh, faults |-> f] :
            sh \in Spreadsheets, f \in Faults}
    \cup {[src |-> BaseSource, CONFIG |-> DefaultConfig, sheets |-> LongSpreadsheet,
           faults |-> NoFaults]}

Init ==
    /\ SPREADSHEET_URL = NULL
    /\ SPREADSHEET_ID = NULL
    /\ ALL_RESULTS = [name \in {} |-> <<>>]
    /\ CRITICAL_ISSUES = <<>>
    /\ Logger = <<>>
    /\ pc = "main"
    /\ raised = {}
    /\ \E run \in Runs :
          /\ src = run.src
          /\ CONFIG = run.CONFIG
          /\ sheets = run.sheets
          /\ faults = run.faults


---------------------------------------------------------------------------
(* main, audit.js:59-100: one action for each statement *)

\* main() up to the first module, audit.js:60-68
Initialize ==
    /\ pc = "main"
    /\ LET started == [Globals EXCEPT !.log = Append(@, Note("main", "Starting audit"))]
           r == initializeSpreadsheet(started, sheets, faults.init, faults.sheet)
       IN  /\ SPREADSHEET_ID' = r.id
           /\ SPREADSHEET_URL' = r.url
           /\ sheets' = r.sheets
           /\ ALL_RESULTS' = r.all
           /\ IF r.id = NULL
              THEN /\ Logger' = Append(r.log, Note("main", "Failed to initialize spreadsheet."))
                   /\ pc' = "aborted"
              ELSE /\ Logger' = Append(r.log, Note("main", "Audit results will be saved"))
                   /\ pc' = "auditAccountSettings"
    /\ UNCHANGED <<CRITICAL_ISSUES, src, CONFIG, faults, raised>>

\* the call of one module from main(): the module logs that it starts, makes its
\* addResult calls, and an exception that leaves it ends main()
AfterReadsPaused(account) == [account EXCEPT !.adGroups.adGroups = <<>>]

\* the account after the calls a module makes on AdsApp: the modules call selectors
\* (withCondition, forDateRange, orderBy, withLimit, get), iterators (hasNext, next,
\* totalNumEntities) and getters of the entities, and no builder, setter, pause,
\* enable or remove: the account is left as it was, also when a call raises
AfterReads(account) == account

RunModule(name, category, result, next) ==
    /\ pc = name
    /\ SetGlobals(addResults([Globals EXCEPT !.log = Append(@, Note("auditing", category))],
                             result.rows))
    /\ raised' = IF result.exc = "none" THEN raised ELSE raised \cup {category}
    /\ pc' = IF result.exc = "escaped" THEN "crashed" ELSE next
    /\ src' = AfterReads(src)
    /\ UNCHANGED <<SPREADSHEET_URL, SPREADSHEET_ID, sheets, CONFIG, faults>>

AccountSettings ==
    RunModule("auditAccountSettings", "Account Settings",
              auditAccountSettings(src.settings), "auditAccountStructure")

AccountStructure ==
    RunModule("auditAccountStructure", "Account Structure",
              auditAccountStructure(src.structure), "auditConversionTracking")

ConversionTracking ==
    RunModule("auditConversionTracking", "Conversion Tracking",
              auditConversionTracking, "auditKeywords")

Keywords ==
    RunModule("auditKeywords", "Keywords", auditKeywords(src.keywords), "auditAdGroups")

AdGroups ==
    RunModule("auditAdGroups", "Ad Groups", auditAdGroups(src.adGroups), "auditAdCopy")

AdCopy ==
    RunModule("auditAdCopy", "Ad Copy", auditAdCopy(src.adCopy), "auditAdExtensions")

AdExtensions ==
    RunModule("auditAdExtensions", "Ad Extensions (Assets)",
              auditAdExtensions(src.extensions), "auditBiddingStrategies")

BiddingStrategies ==
    RunModule("auditBiddingStrategies", "Bidding Strategies",
              auditBiddingStrategies(src.bidding), "auditQualityScore")

QualityScore ==
    RunModule("auditQualityScore", "Quality Score",
              auditQualityScore(src.quality), "auditLandingPages")

LandingPagesAlways ==
    RunModule("auditLandingPages", "Landing Pages",
              auditLandingPages(src.landing, CONFIG.LANDING_PAGE_SAMPLE_SIZE),
              "auditAudienceTargeting")

\* if (CONFIG.CHECK_LANDING_PAGES) auditLandingPages(), audit.js:80-82
LandingPages ==
    /\ CONFIG.CHECK_LANDING_PAGES
    /\ RunModule("auditLandingPages", "Landing Pages",
                 auditLandingPages(src.landing, CONFIG.LANDING_PAGE_SAMPLE_SIZE),
                 "auditAudienceTargeting")

\* else addResult("Landing Pages", ..., "Skipped", ...), audit.js:83-85
LandingPagesSkipped ==
    /\ ~CONFIG.CHECK_LANDING_PAGES
    /\ pc = "auditLandingPages"
    /\ SetGlobals(addResults(Globals, landingPagesSkipped.rows))
    /\ pc' = "auditAudienceTargeting"
    /\ UNCHANGED <<SPREADSHEET_URL, SPREADSHEET_ID, sheets, src, CONFIG, faults, raised>>

AudienceTargeting ==
    RunModule("auditAudienceTargeting", "Audience Targeting",
              auditAudienceTargeting(src.audience), "auditPerformanceMetrics")

PerformanceMetrics ==
    RunModule("auditPerformanceMetrics", "Performance Metrics",
              auditPerformanceMetrics(src.performance), "auditCampaignOptimization")

CampaignOptimization ==
    RunModule("auditCampaignOptimization", "Campaign Optimization",
              auditCampaignOptimization(src.optimization), "auditAutomationTools")

AutomationTools ==
    RunModule("auditAutomationTools", "Automation & Tools",
              auditAutomationTools, "auditCompetitiveAnalysis")

CompetitiveAnalysis ==
    RunModule("auditCompetitiveAnalysis", "Competitive Analysis",
              auditCompetitiveAnalysis, "auditReportingInsights")

ReportingInsights ==
    RunModule("auditReportingInsights", "Reporting & Insights",
              auditReportingInsights, "populateOverviewSheet")

\* populateOverviewSheet(), audit.js:94
PopulateOverview ==
    /\ pc = "populateOverviewSheet"
    /\ LET r == populateOverviewSheet(Globals, SPREADSHEET_ID, sheets, faults.populate)
       IN  /\ sheets' = r.sheets
           /\ Logger' = r.log
    /\ pc' = "writeResultsToSpreadsheet"
    /\ UNCHANGED <<SPREADSHEET_URL, SPREADSHEET_ID, ALL_RESULTS, CRITICAL_ISSUES,
                   src, CONFIG, faults, raised>>

\* writeResultsToSpreadsheet() and the last lines of main(), audit.js:97-100
WriteResults ==
    /\ pc = "writeResultsToSpreadsheet"
    /\ LET r == writeResultsToSpreadsheet(Globals, SPREADSHEET_ID, sheets, faults.write)
       IN  /\ sheets' = r.sheets
           /\ Logger' = Append(r.log, Note("main", "Google Ads Account Audit Completed."))
    /\ pc' = "done"
    /\ UNCHANGED <<SPREADSHEET_URL, SPREADSHEET_ID, ALL_RESULTS, CRITICAL_ISSUES,
                   src, CONFIG, faults, raised>>

Next ==
    \/ Initialize
    \/ AccountSettings
    \/ AccountStructure
    \/ ConversionTracking
    \/ Keywords
    \/ AdGroups
    \/ AdCopy
    \/ AdExtensions
    \/ BiddingStrategies
    \/ QualityScore
    \/ LandingPages
    \/ LandingPagesSkipped
    \/ AudienceTargeting
    \/ PerformanceMetrics
    \/ CampaignOptimization
    \/ AutomationTools
    \/ CompetitiveAnalysis
    \/ ReportingInsights
    \/ PopulateOverview
    \/ WriteResults

Spec == Init /\ [][Next]_vars

---------------------------------------------------------------------------
(* The collector alone: addResult called with any category and status, on  *)
(* buckets of which any number were created before                          *)

\* labels of the routing table and labels that are not in it
Categories == RoutingTable \cup {"Unknown", "", "Overview", "keywords"}

\* statuses of the calls: two the script uses and one it does not
Statuses == {"Fail", "Warn", "fail"}

InitCollector ==
    /\ SPREADSHEET_URL = "url"
    /\ SPREADSHEET_ID = "id"
    /\ \E n \in {0, 3, Len(requiredSheets)} :
          ALL_RESULTS = ResetBuckets([name \in {} |-> <<>>], n)
    /\ CRITICAL_ISSUES = <<>>
    /\ Logger = <<>>
    /\ pc = "addResult"
    /\ raised = {}
    /\ src = BaseSource
    /\ CONFIG = DefaultConfig
    /\ sheets = ProvisionSheets(NoSpreadsheet, Len(requiredSheets))
    /\ faults = NoFaults

\* one call addResult(category, item, status, details, recommendation)
AddResultCall ==
    /\ pc = "addResult"
    /\ Len(SelectSeq(Logger, LAMBDA l : l.kind = "addResult")) < MaxCalls
    /\ \E category \in Categories, status \in Statuses :
          SetGlobals(addResult(Globals, category, "item", status, <<"details">>,
                               "recommendation"))
    /\ UNCHANGED <<SPREADSHEET_URL, SPREADSHEET_ID, pc, sheets, src, CONFIG, faults, raised>>

NextCollector == AddResultCall

SpecCollector == InitCollector /\ [][NextCollector]_vars


---------------------------------------------------------------------------
(* Properties *)

\* every finding of every bucket, bucket after bucket
AllFindings == Concat([i \in DOMAIN bucketNames(ALL_RESULTS) |->
                          ALL_RESULTS[bucketNames(ALL_RESULTS)[i]]])

\* the rows of the addResult calls made so far, in the order of the calls
Emitted == LET calls == SelectSeq(Logger, LAMBDA l : l.kind = "addResult")
           IN  [i \in DOMAIN calls |-> calls[i].row]

WithStatus(rows, status) == SelectSeq(rows, LAMBDA row : row[3] = status)

\* main() has gone past the call of populateOverviewSheet
AfterPopulate == pc \in {"writeResultsToSpreadsheet", "done"}

\* the summary section of the overview was written in this run
OverviewPopulated ==
    /\ AfterPopulate
    /\ SHEET_NAMES.OVERVIEW \in DOMAIN sheets
    /\ Len(sheets[SHEET_NAMES.OVERVIEW]) >= 3
    /\ sheets[SHEET_NAMES.OVERVIEW][1][1] = "--- AUDIT SUMMARY ---"

\* the statements of main() that follow the named one
ModuleOrder ==
    <<"auditAccountSettings", "auditAccountStructure", "auditConversionTracking",
      "auditKeywords", "auditAdGroups", "auditAdCopy", "auditAdExtensions",
      "auditBiddingStrategies", "auditQualityScore", "auditLandingPages",
      "auditAudienceTargeting", "auditPerformanceMetrics", "auditCampaignOptimization",
      "auditAutomationTools", "auditCompetitiveAnalysis", "auditReportingInsights",
      "populateOverviewSheet", "writeResultsToSpreadsheet", "done">>

\* main() has returned from the named module
Returned(name) ==
    \E i, j \in DOMAIN ModuleOrder : ModuleOrder[i] = name /\ ModuleOrder[j] = pc /\ i < j

\* C1: whenever an exception is raised while a module executes, exactly one Error
\* finding with the module's category is recorded for it and main() goes on: main()
\* is never ended by the exception, so the later modules, the overview and the sheets
\* follow.
C1_ExceptionBecomesOneErrorFinding ==
    /\ pc # "crashed"
    /\ \A category \in raised :
          Len(SelectSeq(AllFindings, LAMBDA row : row[1] = category
                                                  /\ row[2] = "General Check"
                                                  /\ row[3] = "Error")) = 1

\* C2: when the overview is populated, the total of Fail it shows is the number of
\* findings with status Fail over all buckets and the length of CRITICAL_ISSUES, and
\* the total of Warn it shows is the number of findings with status Warn.
C2_OverviewTotalsMatchFindings ==
    OverviewPopulated =>
        /\ sheets[SHEET_NAMES.OVERVIEW][2][2] = <<ToString(Len(WithStatus(AllFindings, "Fail")))>>
        /\ Len(WithStatus(AllFindings, "Fail")) = Len(CRITICAL_ISSUES)
        /\ sheets[SHEET_NAMES.OVERVIEW][3][2] = <<ToString(Len(WithStatus(AllFindings, "Warn")))>>

\* the overview shows totals of findings of several buckets, Fail and Warn
C2_Witness ==
    /\ OverviewPopulated
    /\ Len(CRITICAL_ISSUES) >= 2
    /\ \E s, t \in DOMAIN ALL_RESULTS :
          /\ s # t
          /\ WithStatus(ALL_RESULTS[s], "Fail") # <<>>
          /\ WithStatus(ALL_RESULTS[t], "Fail") # <<>>
    /\ WithStatus(AllFindings, "Warn") # <<>>
    /\ WithStatus(AllFindings, "Error") # <<>>

\* the bucket of a sheet, empty when it was not created yet
Bucket(all, sheetName) == IF sheetName \in DOMAIN all THEN all[sheetName] ELSE <<>>

\* C3: a call of addResult appends exactly the row [category, item, status, details,
\* recommendation] to the end of the bucket of getSheetNameForCategory(category),
\* creating the bucket when it is absent, leaves every other bucket as it was, and
\* appends the same row to CRITICAL_ISSUES if and only if status is exactly "Fail".
C3_AddResultAppendsOneRow ==
    [][LET rowData == Logger'[Len(Logger')].row
           sheetName == getSheetNameForCategory(rowData[1])
       IN  /\ Logger'[Len(Logger')].kind = "addResult"
           /\ Len(rowData) = 5
           /\ DOMAIN ALL_RESULTS' = DOMAIN ALL_RESULTS \cup {sheetName}
           /\ ALL_RESULTS'[sheetName] = Append(Bucket(ALL_RESULTS, sheetName), rowData)
           /\ \A other \in DOMAIN ALL_RESULTS' \ {sheetName} :
                 ALL_RESULTS'[other] = ALL_RESULTS[other]
           /\ CRITICAL_ISSUES' = IF rowData[3] = "Fail" THEN Append(CRITICAL_ISSUES, rowData)
                                 ELSE CRITICAL_ISSUES]_vars

\* a Fail was recorded in a bucket that did not exist, then a row with status "fail"
C3_Witness ==
    /\ pc = "addResult"
    /\ SHEET_NAMES.OVERVIEW \notin DOMAIN ALL_RESULTS
    /\ \E s \in DOMAIN ALL_RESULTS :
          /\ Len(ALL_RESULTS[s]) = 2
          /\ ALL_RESULTS[s][1][3] = "Fail"
          /\ ALL_RESULTS[s][2][3] = "fail"
    /\ Len(CRITICAL_ISSUES) = 1

\* a finding was recorded
SomeFinding ==
    \/ CRITICAL_ISSUES # <<>>
    \/ \E s \in DOMAIN ALL_RESULTS : ALL_RESULTS[s] # <<>>
    \/ \E i \in DOMAIN Logger : Logger[i].kind = "addResult"

\* C4: when initializeSpreadsheet fails at any step, SPREADSHEET_ID and
\* SPREADSHEET_URL are both null afterwards and main() returns at once: no module is
\* called, no finding is recorded, the overview and the sheets are not written.
C4_FailedInitAbortsRun ==
    (faults.init # "none" /\ pc # "main") =>
        /\ SPREADSHEET_ID = NULL
        /\ SPREADSHEET_URL = NULL
        /\ pc = "aborted"
        /\ ~SomeFinding
        /\ \A i \in DOMAIN Logger : Logger[i].kind \in {"main", "init", "error"}
        /\ ~OverviewPopulated

\* the run was aborted by a failure that came after the spreadsheet id was obtained
\* and some sheets were provisioned
C4_Witness ==
    /\ pc = "aborted"
    /\ faults.init = "sheet"
    /\ faults.sheet = 4
    /\ DOMAIN ALL_RESULTS # {}
    /\ \E i \in DOMAIN Logger : Logger[i].kind = "init"


\* the findings of ad group i that do not depend on an accessor that raises: none
\* when getName() raises (every finding names the ad group), else the findings of the
\* rules whose own accessor answers
OtherRuleFindings(g, i) ==
    LET adGroupName == AdGroupNameOf(g, i)
        campaignName == CampaignName(1)
    IN  IF g.name = "throw" THEN <<>>
        ELSE (IF g.keywords # "throw" THEN KeywordCountItems(g, adGroupName, campaignName)
              ELSE <<>>)
             \o (IF g.ads # "throw" THEN AdCountItems(g, adGroupName, campaignName) ELSE <<>>)
             \o (IF ~ADGROUP_NAMING_CONVENTION_REGEX(adGroupName)
                 THEN <<<<"Ad Groups", "Ad Group Naming", "Warn", <<adGroupName, campaignName>>,
                          "Standardize ad group naming.">>>>
                 ELSE <<>>)
             \o <<Info("Ad Groups", "Ad Group Bids",
                       <<adGroupName, campaignName, "Managed by Strategy">>,
                       "Ensure bids align with performance goals and bidding strategy.")>>

\* C5: when an accessor raises for one ad group in auditAdGroups, every other rule of
\* that ad group and every rule of every other ad group is still evaluated and its
\* findings are recorded as they are when nothing raises.
C5_ThrowingAccessorSparesOtherRules ==
    (Returned("auditAdGroups") /\ src.adGroups.iterator = "ok") =>
        \A i \in DOMAIN src.adGroups.adGroups :
            \A row \in Range(OtherRuleFindings(src.adGroups.adGroups[i], i)) :
                row \in Range(Bucket(ALL_RESULTS, getSheetNameForCategory("Ad Groups")))

\* a finding made in a catch block: its details carry the message of the exception
ReportsException(row) == "error" \in Range(row[4])

\* C6: a retrieval that raises is reported by a finding whose status is Error or
\* Info, never Warn, Fail or Pass.
C6_FailedRetrievalIsErrorOrInfo ==
    \A i \in DOMAIN AllFindings :
        ReportsException(AllFindings[i]) => AllFindings[i][3] \in {"Error", "Info"}

\* the findings that count the retrievals a module could not make
FailureItems ==
    {"Quality Score Errors", "Impression Share Checks", "Metric Retrieval",
     "Bidding Strategy Check"}

\* C7: a retrieval that raises never ends as a line of the log alone: for every
\* warning a module logs there is a finding of the module that reports a failure.
C7_FailedRetrievalHasFinding ==
    \A i \in DOMAIN Logger :
        (Logger[i].kind = "warning" /\ Logger[i].row[1] # "") =>
            \E k \in DOMAIN AllFindings :
                /\ AllFindings[k][1] = Logger[i].row[1]
                /\ ReportsException(AllFindings[k]) \/ AllFindings[k][2] \in FailureItems

\* C8: getSheetNameForCategory answers one of the five detail sheets for every
\* category, never the overview, and the fallback sheet for a category outside the
\* routing table; a finding with such a category is stored in the fallback bucket.
C8_RoutingIsTotal ==
    /\ \A category \in Categories :
          /\ getSheetNameForCategory(category) \in DetailSheets
          /\ category \notin RoutingTable =>
                getSheetNameForCategory(category) = SHEET_NAMES.MANUAL_CHECKS
    /\ \A i \in DOMAIN Emitted :
          Emitted[i][1] \notin RoutingTable =>
              Emitted[i] \in Range(Bucket(ALL_RESULTS, SHEET_NAMES.MANUAL_CHECKS))
    /\ Bucket(ALL_RESULTS, SHEET_NAMES.OVERVIEW) = <<>>

\* a finding with the category "Overview" was recorded, in the fallback bucket
C8_Witness ==
    /\ pc = "addResult"
    /\ \E i \in DOMAIN Bucket(ALL_RESULTS, SHEET_NAMES.MANUAL_CHECKS) :
          ALL_RESULTS[SHEET_NAMES.MANUAL_CHECKS][i][1] = "Overview"
    /\ \E i \in DOMAIN Bucket(ALL_RESULTS, SHEET_NAMES.MANUAL_CHECKS) :
          ALL_RESULTS[SHEET_NAMES.MANUAL_CHECKS][i][1] = "keywords"

\* the rows of the addResult calls of the step that are routed to a sheet
NewRows(sheetName) ==
    LET calls == SelectSeq(SubSeq(Logger', Len(Logger) + 1, Len(Logger')),
                           LAMBDA l : l.kind = "addResult"
                                      /\ getSheetNameForCategory(l.row[1]) = sheetName)
    IN  [i \in DOMAIN calls |-> calls[i].row]

\* C9: from the call of the first module on, every bucket only grows at its end: what
\* it held stays a prefix, and what is added is the rows of the addResult calls
\* routed to it, in the order of the calls, none left out, moved or merged.
C9_BucketsAppendOnly ==
    [][pc # "main" =>
          \A s \in DOMAIN ALL_RESULTS :
              /\ s \in DOMAIN ALL_RESULTS'
              /\ ALL_RESULTS'[s] = ALL_RESULTS[s] \o NewRows(s)]_vars

\* the report was written and a bucket holds the same row twice
C9_Witness ==
    /\ pc = "done"
    /\ \E s \in DOMAIN ALL_RESULTS :
          \E i, j \in DOMAIN ALL_RESULTS[s] : i < j /\ ALL_RESULTS[s][i] = ALL_RESULTS[s][j]

\* C10: at every point of a run CRITICAL_ISSUES is the Fail findings recorded so far,
\* in the order of their addResult calls, and the critical section of the overview
\* lists them in that order.
C10_CriticalIssuesInEmissionOrder ==
    /\ CRITICAL_ISSUES = WithStatus(Emitted, "Fail")
    /\ (OverviewPopulated /\ CriticalHeader \in Range(sheets[SHEET_NAMES.OVERVIEW])
        /\ CRITICAL_ISSUES # <<>>) =>
          LET ov == sheets[SHEET_NAMES.OVERVIEW]
              n == Len(CRITICAL_ISSUES)
          IN  /\ Len(ov) > n
              /\ ov[Len(ov) - n] = CriticalHeader
              /\ \A i \in 1..n :
                    ov[Len(ov) - n + i] =
                        <<CRITICAL_ISSUES[i][1] \o " - " \o CRITICAL_ISSUES[i][2],
                          CRITICAL_ISSUES[i][4], CRITICAL_ISSUES[i][5]>>

\* the overview lists critical issues of two modules whose emission order is not the
\* order of their sheets
C10_Witness ==
    /\ OverviewPopulated
    /\ CriticalHeader \in Range(sheets[SHEET_NAMES.OVERVIEW])
    /\ Len(CRITICAL_ISSUES) >= 2
    /\ CRITICAL_ISSUES[1][1] = "Ad Groups"
    /\ CRITICAL_ISSUES[2][1] = "Bidding Strategies"
    /\ \E i \in DOMAIN AllFindings : AllFindings[i][3] = "Warn"


---------------------------------------------------------------------------
(* main() executed again in the same global state: the globals of           *)
(* audit.js:40-43 keep what the run before left in them                     *)

MaxRuns == 2

\* the accounts of a later run: the base account, and the base account with one ad
\* group that has a single ad
RerunSources ==
    {BaseSource,
     [BaseSource EXCEPT !.adGroups.adGroups = <<[name |-> "good", keywords |-> "5", ads |-> "1"]>>]}

\* the calls of main() made so far
Started == Len(SelectSeq(Logger, LAMBDA l : l = Note("main", "Starting audit")))

\* main() is called again after it ended: nothing re-evaluates lines 40-43
Rerun ==
    /\ pc \in {"done", "aborted", "crashed"}
    /\ Started < MaxRuns
    /\ pc' = "main"
    /\ raised' = {}
    /\ src' \in RerunSources
    /\ UNCHANGED <<SPREADSHEET_URL, SPREADSHEET_ID, ALL_RESULTS, CRITICAL_ISSUES, Logger,
                   sheets, CONFIG, faults>>

InitRerun == Init /\ src = BaseSource

NextRerun == Next \/ Rerun

SpecRerun == InitRerun /\ [][NextRerun]_vars

\* the position in the log of the start of the current call of main()
StartOfRun ==
    IF Started = 0 THEN 1
    ELSE CHOOSE i \in DOMAIN Logger :
            /\ Logger[i] = Note("main", "Starting audit")
            /\ \A j \in DOMAIN Logger : (j > i) => Logger[j] # Note("main", "Starting audit")

\* the rows of the addResult calls of the current call of main(), in order
EmittedThisRun ==
    LET calls == SelectSeq(SubSeq(Logger, StartOfRun, Len(Logger)),
                           LAMBDA l : l.kind = "addResult")
    IN  [i \in DOMAIN calls |-> calls[i].row]

\* C11: when main() is executed again in the same global state, the buckets and
\* CRITICAL_ISSUES the overview and the sheets of the later run are made from hold
\* the findings of the later run only.
C11_RerunStartsFresh ==
    (pc \in {"populateOverviewSheet", "writeResultsToSpreadsheet", "done"}) =>
        /\ CRITICAL_ISSUES = WithStatus(EmittedThisRun, "Fail")
        /\ \A s \in DOMAIN ALL_RESULTS :
              ALL_RESULTS[s] = SelectSeq(EmittedThisRun,
                                         LAMBDA row : getSheetNameForCategory(row[1]) = s)


\* the categories of the modules in the order main() is to call them
ModuleCategories ==
    <<"Account Settings", "Account Structure", "Conversion Tracking", "Keywords", "Ad Groups",
      "Ad Copy", "Ad Extensions (Assets)", "Bidding Strategies", "Quality Score",
      "Landing Pages", "Audience Targeting", "Performance Metrics", "Campaign Optimization",
      "Automation & Tools", "Competitive Analysis", "Reporting & Insights">>

\* the modules that were entered, in order: each logs its category when it starts
Invoked ==
    LET lines == SelectSeq(Logger, LAMBDA l : l.kind = "auditing")
    IN  [i \in DOMAIN lines |-> lines[i].row[2]]

\* main() has ended after initializeSpreadsheet succeeded
RunEnded == pc \in {"done", "crashed"}

\* C12: after initializeSpreadsheet succeeds, main() calls each of the sixteen modules
\* once, in the fixed order; populateOverviewSheet starts after the last module,
\* writeResultsToSpreadsheet after populateOverviewSheet, and nothing is recorded once
\* populateOverviewSheet has started.  Stated for the runs with CHECK_LANDING_PAGES
\* set, in which main() is to call auditLandingPages.
C12_ModulesOnceInOrder ==
    CONFIG.CHECK_LANDING_PAGES =>
    /\ Len(Invoked) <= Len(ModuleCategories)
    /\ \A i \in DOMAIN Invoked : Invoked[i] = ModuleCategories[i]
    /\ (RunEnded \/ pc \in {"populateOverviewSheet", "writeResultsToSpreadsheet"}) =>
          Invoked = ModuleCategories
    /\ \A i, j \in DOMAIN Logger :
          (i < j /\ Logger[i].kind \in {"overview", "dump", "write"}) =>
              Logger[j].kind \notin {"auditing", "addResult", "warning"}
    /\ \A i, j \in DOMAIN Logger :
          (i < j /\ Logger[i].kind \in {"dump", "write"}) => Logger[j].kind # "overview"


---------------------------------------------------------------------------
(* populateOverviewSheet called again over the same buckets *)

MaxPopulate == 2

\* the calls of populateOverviewSheet that went past the test of SPREADSHEET_ID
Populated == Len(SelectSeq(Logger, LAMBDA l : l = Note("overview", "Populating Overview Sheet...")))

\* populateOverviewSheet() once more, before writeResultsToSpreadsheet
PopulateAgain ==
    /\ pc = "writeResultsToSpreadsheet"
    /\ Populated < MaxPopulate
    /\ LET r == populateOverviewSheet(Globals, SPREADSHEET_ID, sheets, faults.populate)
       IN  /\ sheets' = r.sheets
           /\ Logger' = r.log
    /\ UNCHANGED <<SPREADSHEET_URL, SPREADSHEET_ID, ALL_RESULTS, CRITICAL_ISSUES, pc,
                   src, CONFIG, faults, raised>>

NextPopulate == Next \/ PopulateAgain

SpecPopulate == Init /\ [][NextPopulate]_vars

\* C13: a second call of populateOverviewSheet over the same buckets and
\* CRITICAL_ISSUES leaves the overview as the first call made it, row for row, and
\* leaves ALL_RESULTS and CRITICAL_ISSUES as they were.
C13_PopulateTwiceSameOverview ==
    [][(pc = "writeResultsToSpreadsheet" /\ pc' = pc /\ Populated' = Populated + 1) =>
          /\ sheets' = sheets
          /\ ALL_RESULTS' = ALL_RESULTS
          /\ CRITICAL_ISSUES' = CRITICAL_ISSUES]_vars

\* the overview was populated twice, with a critical section of two rows
C13_Witness ==
    /\ Populated = 2
    /\ pc = "writeResultsToSpreadsheet"
    /\ Len(CRITICAL_ISSUES) = 2
    /\ SHEET_NAMES.OVERVIEW \in DOMAIN sheets
    /\ Len(sheets[SHEET_NAMES.OVERVIEW]) > 2
    /\ sheets[SHEET_NAMES.OVERVIEW][Len(sheets[SHEET_NAMES.OVERVIEW])][1]
          = CRITICAL_ISSUES[2][1] \o " - " \o CRITICAL_ISSUES[2][2]
    /\ sheets[SHEET_NAMES.OVERVIEW][Len(sheets[SHEET_NAMES.OVERVIEW]) - 2] = CriticalHeader


\* the order of the areas in the summary
AreaOrder ==
    <<"Performance Summary", "Structure & Settings", "Keywords & AdGroups",
      "Ads & Extensions", "Opportunities & Manual Checks">>

\* the lines of the overview that name an area
AreaLines ==
    SelectSeq(sheets[SHEET_NAMES.OVERVIEW], LAMBDA row : row[1] \in Range(AreaOrder))

\* a bucket holds a finding with status Fail or Warn
HasIssues(sheetName) ==
    \E i \in DOMAIN Bucket(ALL_RESULTS, sheetName) :
        ALL_RESULTS[sheetName][i][3] \in {"Fail", "Warn"}

\* C14: the area lines of the summary are in the order Performance Summary,
\* Structure & Settings, Keywords & AdGroups, Ads & Extensions, Opportunities &
\* Manual Checks, whatever the order the buckets were filled in; an area has a line
\* if and only if its bucket holds a Fail or a Warn finding, the line shows the
\* counts of its bucket, the totals are the sums of the lines, and an area without a
\* line still has its sheet.
C14_AreaLinesInFixedOrder ==
    OverviewPopulated =>
        LET areas == SelectSeq(AreaOrder, HasIssues)
        IN  /\ Len(AreaLines) = Len(areas)
            /\ \A i \in DOMAIN areas :
                  /\ AreaLines[i][1] = areas[i]
                  /\ AreaLines[i][2] =
                        <<"Fails: "
                          \o ToString(Len(WithStatus(ALL_RESULTS[areas[i]], "Fail")))
                          \o ", Warns: "
                          \o ToString(Len(WithStatus(ALL_RESULTS[areas[i]], "Warn")))>>
            /\ sheets[SHEET_NAMES.OVERVIEW][2][2] =
                  <<ToString(SumSeq([i \in DOMAIN areas |->
                                        Len(WithStatus(ALL_RESULTS[areas[i]], "Fail"))]))>>
            /\ sheets[SHEET_NAMES.OVERVIEW][3][2] =
                  <<ToString(SumSeq([i \in DOMAIN areas |->
                                        Len(WithStatus(ALL_RESULTS[areas[i]], "Warn"))]))>>
            /\ \A name \in Range(AreaOrder) :
                  name \in DOMAIN sheets /\ name \in DOMAIN ALL_RESULTS

\* the summary has lines for two areas or more, the first for Performance Summary
\* though the first Fail or Warn of the run went to another bucket, and an area
\* whose bucket holds findings has no line
C14_Witness ==
    /\ OverviewPopulated
    /\ Len(AreaLines) >= 2
    /\ AreaLines[1][1] = "Performance Summary"
    /\ \E i \in DOMAIN Emitted :
          /\ Emitted[i][3] \in {"Fail", "Warn"}
          /\ getSheetNameForCategory(Emitted[i][1]) # "Performance Summary"
          /\ \A j \in 1..(i - 1) : Emitted[j][3] \notin {"Fail", "Warn"}
    /\ \E name \in Range(AreaOrder) : ALL_RESULTS[name] # <<>> /\ ~HasIssues(name)


\* no call of the spreadsheet services raised in the run
NoSinkError == \A i \in DOMAIN Logger : Logger[i].kind # "error"

\* the run opened a spreadsheet that existed
ReusedSpreadsheet == \E i \in DOMAIN Logger : Logger[i] = Note("init", "Using existing spreadsheet")

\* C15: after a run on a spreadsheet that holds the rows of a previous run, no row
\* of the previous run is left in any sheet; the rows of each detail sheet below its
\* header are the bucket of the sheet, in order, also when the bucket is shorter than
\* what the sheet held, and the overview holds one summary, that of the run.
C15_OnlyCurrentRunRemains ==
    (pc = "done") =>
        /\ \A s \in DOMAIN sheets \ {SHEET_NAMES.OVERVIEW} :
              \A i \in DOMAIN sheets[s] : sheets[s][i] # OldRow
        /\ SHEET_NAMES.OVERVIEW \in DOMAIN sheets =>
              \A i \in DOMAIN sheets[SHEET_NAMES.OVERVIEW] :
                  sheets[SHEET_NAMES.OVERVIEW][i] # OldOverviewRow
        /\ NoSinkError =>
              /\ \A s \in DetailSheets : sheets[s] = Bucket(ALL_RESULTS, s)
              /\ sheets[SHEET_NAMES.OVERVIEW][1][1] = "--- AUDIT SUMMARY ---"
              /\ Len(SelectSeq(sheets[SHEET_NAMES.OVERVIEW],
                               LAMBDA row : row[1] = "--- AUDIT SUMMARY ---")) = 1
              /\ Len(SelectSeq(sheets[SHEET_NAMES.OVERVIEW],
                               LAMBDA row : row = CriticalHeader)) = 1

\* a run on a spreadsheet that existed has ended, and every detail sheet holds the
\* findings of its bucket, fewer than the previous run left
C15_Witness ==
    /\ pc = "done"
    /\ ReusedSpreadsheet
    /\ NoSinkError
    /\ \A s \in DetailSheets :
          /\ sheets[s] # <<>>
          /\ Len(sheets[s]) < MaxOldRows
          /\ sheets[s] = ALL_RESULTS[s]
    /\ Len(sheets[SHEET_NAMES.OVERVIEW]) < MaxOldRows


\* the findings of the Ad Groups module with the given item and status
AdGroupFindings(item, status) ==
    SelectSeq(Emitted, LAMBDA row : row[1] = "Ad Groups" /\ row[2] = item /\ row[3] = status)

\* the ad groups the loop of auditAdGroups counted in adGroupsChecked: the loop ends
\* with the first ad group whose name cannot be read
CheckedAdGroups ==
    LET gs == src.adGroups.adGroups
    IN  IF src.adGroups.iterator # "ok" THEN {}
        ELSE {i \in DOMAIN gs : \A j \in 1..(i - 1) : gs[j].name # "throw"}

\* the count of enabled ads of ad group i was retrieved
AdCountRetrieved(i) ==
    LET g == src.adGroups.adGroups[i]
    IN  i \in CheckedAdGroups /\ g.name # "throw" /\ g.ads # "throw"

\* C16: in the Ad Groups module, each checked ad group whose retrieved count of
\* enabled ads is below MIN_ADS_PER_ADGROUP has exactly one "Ad Count" Fail finding
\* that names it, each ad group at or above the minimum has none, and the "Ad Count"
\* Pass roll-up is recorded if and only if at least one ad group was checked and no
\* ad group received an "Ad Count" Fail.
C16_AdCountFailAndRollUp ==
    Returned("auditAdGroups") =>
        /\ \A i \in DOMAIN src.adGroups.adGroups :
              LET g == src.adGroups.adGroups[i]
                  named == SelectSeq(AdGroupFindings("Ad Count", "Fail"),
                                     LAMBDA row : row[4][1] = AdGroupNameOf(g, i))
              IN  /\ (AdCountRetrieved(i) /\ CountNumber(g.ads) < MIN_ADS_PER_ADGROUP)
                         => Len(named) = 1
                  /\ (AdCountRetrieved(i) /\ CountNumber(g.ads) >= MIN_ADS_PER_ADGROUP)
                         => Len(named) = 0
        /\ (AdGroupFindings("Ad Count", "Pass") # <<>>)
              <=> (CheckedAdGroups # {} /\ AdGroupFindings("Ad Count", "Fail") = <<>>)


\* the findings of the Account Structure module on the naming convention of campaigns
NamingFindings(status) ==
    SelectSeq(Emitted, LAMBDA row : row[1] = "Account Structure"
                                    /\ row[2] = "Campaign Naming Convention"
                                    /\ row[3] = status)

\* the campaigns the loop of auditAccountStructure counted in campaignsChecked: the
\* loop ends with the first campaign for which a statement outside a try raises
CheckedCampaigns ==
    LET cs == src.structure.campaigns
    IN  IF src.structure.iterator # "ok" THEN {}
        ELSE {i \in DOMAIN cs :
                \A j \in 1..(i - 1) : cs[j].name # "throw" /\ cs[j].budget # "nullAmount"}

\* C17: in the Account Structure module, for every enabled or paused campaign a
\* "Campaign Naming Convention" Warn finding that names it is recorded if and only if
\* its name does not match CAMPAIGN_NAMING_CONVENTION_REGEX; the Pass roll-up is
\* recorded if and only if at least one campaign was checked and none failed the
\* pattern, and the Info roll-up if and only if no campaign was checked.
C17_CampaignNamingWarnAndRollUp ==
    Returned("auditAccountStructure") =>
        /\ \A i \in DOMAIN src.structure.campaigns :
              LET c == src.structure.campaigns[i]
              IN  (c.name # "throw") =>
                      ((\E k \in DOMAIN NamingFindings("Warn") :
                            NamingFindings("Warn")[k][4] = <<StructureName(c, i)>>)
                       <=> ~CAMPAIGN_NAMING_CONVENTION_REGEX(StructureName(c, i)))
        /\ (NamingFindings("Pass") # <<>>)
              <=> (CheckedCampaigns # {} /\ NamingFindings("Warn") = <<>>)
        /\ (NamingFindings("Info") # <<>>) <=> (CheckedCampaigns = {})


LandingFindings == SelectSeq(Emitted, LAMBDA row : row[1] = "Landing Pages")

\* the categories of the modules when the landing pages are not checked
OtherModuleCategories == SelectSeq(ModuleCategories, LAMBDA c : c # "Landing Pages")

\* C19: when CONFIG.CHECK_LANDING_PAGES is false, the run records exactly one finding
\* with status Skipped, of category "Landing Pages"; auditLandingPages is not invoked,
\* so the category has no other finding, whatever the final URLs of the account are;
\* and every other module runs, in order. When it is true, no finding has status
\* Skipped.
C19_DisabledLandingPagesIsSkipped ==
    /\ CONFIG.CHECK_LANDING_PAGES => WithStatus(Emitted, "Skipped") = <<>>
    /\ ~CONFIG.CHECK_LANDING_PAGES =>
          /\ \A i \in DOMAIN Invoked : Invoked[i] # "Landing Pages"
          /\ LandingFindings = WithStatus(Emitted, "Skipped")
          /\ Len(LandingFindings) <= 1
          /\ Returned("auditLandingPages") =>
                LandingFindings = <<<<"Landing Pages", "Landing Page Checks", "Skipped",
                                      <<"CONFIG.CHECK_LANDING_PAGES is false">>,
                                      "Enable in CONFIG if needed.">>>>
          /\ (pc = "done") => Invoked = OtherModuleCategories

\* a run with CHECK_LANDING_PAGES false on an account with an ad whose final URL
\* is broken has ended with the one Skipped finding
C19_Witness ==
    /\ ~CONFIG.CHECK_LANDING_PAGES
    /\ pc = "done"
    /\ Len(WithStatus(Emitted, "Skipped")) = 1
    /\ \E i \in DOMAIN src.landing.sources : src.landing.sources[i].host = "gone.example"


\* the default branch of getSheetNameForCategory was taken
UnknownCategoryLogged ==
    \E i \in DOMAIN Logger : Logger[i] = Note("warning", "Unknown category")

\* C20: in every run, every category passed to addResult by main() or by a module is
\* one of the sixteen labels of the cases of getSheetNameForCategory, so the default
\* branch is never taken.
C20_CategoriesAreRouted ==
    /\ Cardinality(RoutingTable) = Len(ModuleCategories)
    /\ LET rows == Emitted
       IN  \A i \in DOMAIN rows : rows[i][1] \in RoutingTable
    /\ ~UnknownCategoryLogged

\* a run has ended in which findings of all the labels of the routing table were recorded
C20_Witness ==
    /\ pc = "done"
    /\ {Emitted[i][1] : i \in DOMAIN Emitted} = RoutingTable
    /\ \E i \in DOMAIN Emitted : Emitted[i][3] = "Skipped"


\* the statuses the comment of addResult lists, audit.js:230
DocumentedStatuses == {"Pass", "Fail", "Warn", "Info", "Error", "Skipped"}

\* a row with the five fields of a finding, each with a value, and a listed status
WellFormedFinding(row) ==
    /\ Len(row) = Len(<<"category", "item", "status", "details", "recommendation">>)
    /\ \A k \in {1, 2, 5} : row[k] \notin {NULL, ""}
    /\ row[3] \in DocumentedStatuses

\* C21: every finding held in a bucket or in CRITICAL_ISSUES during a run has the
\* five fields category, item, status, details and recommendation, and its status is
\* one of Pass, Fail, Warn, Info, Error and Skipped.
C21_FindingsAreWellFormed ==
    /\ LET held == AllFindings
       IN  \A i \in DOMAIN held : WellFormedFinding(held[i])
    /\ \A i \in DOMAIN CRITICAL_ISSUES : WellFormedFinding(CRITICAL_ISSUES[i])

\* a run has ended whose buckets hold findings of every status a module records
C21_Witness ==
    /\ pc = "done"
    /\ {AllFindings[i][3] : i \in DOMAIN AllFindings} = DocumentedStatuses \ {"Skipped"}
    /\ CRITICAL_ISSUES # <<>>


\* the catch of populateOverviewSheet was entered, audit.js:336-338
PopulateFailed ==
    \E i \in DOMAIN Logger : Logger[i] = Note("error", "Error populating overview sheet")

\* the catch of writeResultsToSpreadsheet was entered, audit.js:396-411
WriteFailed ==
    \E i \in DOMAIN Logger : Logger[i] = Note("error", "Error writing results to spreadsheet")

\* the rows written to the log by the catch of writeResultsToSpreadsheet, in order
DumpedRows ==
    LET lines == SelectSeq(Logger, LAMBDA l : l.kind = "dump" /\ l.row[1] # "")
    IN  [i \in DOMAIN lines |-> lines[i].row]

\* main() has executed its last statements, audit.js:98-99
Completed ==
    /\ pc = "done"
    /\ Logger # <<>>
    /\ Logger[Len(Logger)] = Note("main", "Google Ads Account Audit Completed.")

\* C22: once the spreadsheet is initialized, no failure of the spreadsheet aborts the
\* run: after an exception in populateOverviewSheet main() goes on to call
\* writeResultsToSpreadsheet, an exception in writeResultsToSpreadsheet is caught and
\* every finding of every bucket is written to the log, and main() ends normally in
\* both cases.
C22_SinkFailureDoesNotAbort ==
    /\ (PopulateFailed \/ WriteFailed) => pc \in {"writeResultsToSpreadsheet", "done"}
    /\ (PopulateFailed /\ pc = "done") =>
          /\ Completed
          /\ \E i, j \in DOMAIN Logger :
                /\ i < j
                /\ Logger[i] = Note("error", "Error populating overview sheet")
                /\ Logger[j].kind = "write"
          /\ \A s \in DetailSheets : sheets[s] = Bucket(ALL_RESULTS, s)
    /\ WriteFailed =>
          /\ Completed
          /\ DumpedRows = AllFindings

\* a run has ended in which setValues raised for a sheet after another sheet was
\* written, and the findings were written to the log
C22_Witness ==
    /\ pc = "done"
    /\ WriteFailed
    /\ DumpedRows # <<>>
    /\ \E s \in DetailSheets : sheets[s] # <<>>

\* a run has ended in which populating the overview raised
C22_WitnessPopulate == pc = "done" /\ PopulateFailed /\ AllFindings # <<>>


\* the findings of a category, in the order of their recording
CategoryFindings(category) == SelectSeq(Emitted, LAMBDA row : row[1] = category)

\* an exception raised in the module of the category was caught by a catch block of
\* the module: the module raised and main() was not ended in it
Caught(category) ==
    /\ category \in raised
    /\ ~(pc = "crashed" /\ Invoked # <<>> /\ Invoked[Len(Invoked)] = category)

\* the row names the entity: the first of its details is the name
Names(row, name) == Len(row[4]) > 0 /\ row[4][1] = name

\* C23: when an exception reaches the outer catch block of a module, the module
\* records exactly one Error finding with item "General Check" and its category, after
\* all its other findings; the findings recorded before the exception are kept, no
\* finding of a later entity and no roll-up is recorded, and main() goes on.
C23_OuterCatchRecordsOneError ==
    /\ \A category \in raised :
          Caught(category) =>
              LET rows == CategoryFindings(category)
                  errors == SelectSeq(rows, LAMBDA row : row[2] = "General Check"
                                                         /\ row[3] = "Error")
              IN  /\ Len(errors) = 1
                  /\ rows[Len(rows)] = errors[1]
                  /\ pc # "main"
    /\ (Caught("Ad Groups") /\ src.adGroups.iterator = "ok") =>
          LET rows == CategoryFindings("Ad Groups")
              gs == src.adGroups.adGroups
          IN  /\ \A i \in DOMAIN gs :
                    IF i \in CheckedAdGroups /\ gs[i].name # "throw"
                    THEN Info("Ad Groups", "Ad Group Bids",
                              <<AdGroupNameOf(gs[i], i), CampaignName(1), "Managed by Strategy">>,
                              "Ensure bids align with performance goals and bidding strategy.")
                            \in Range(rows)
                    ELSE \A k \in DOMAIN rows : ~Names(rows[k], AdGroupNameOf(gs[i], i))
              /\ \A k \in DOMAIN rows :
                    /\ rows[k][3] # "Pass"
                    /\ rows[k][2] # "Competing Keywords within Ad Group"
    /\ (Caught("Account Structure") /\ src.structure.iterator = "ok") =>
          LET rows == CategoryFindings("Account Structure")
              cs == src.structure.campaigns
          IN  /\ \A i \in DOMAIN cs :
                    IF i \in CheckedCampaigns /\ cs[i].name # "throw"
                    THEN (~CAMPAIGN_NAMING_CONVENTION_REGEX(StructureName(cs[i], i)))
                            => \E k \in DOMAIN rows :
                                  /\ rows[k][2] = "Campaign Naming Convention"
                                  /\ Names(rows[k], StructureName(cs[i], i))
                    ELSE \A k \in DOMAIN rows : ~Names(rows[k], StructureName(cs[i], i))
              /\ \A k \in DOMAIN rows :
                    /\ rows[k][3] # "Pass"
                    /\ rows[k][2] \notin {"Total Account Budget", "Campaign Organization",
                                          "Ad Group Theming", "Overlapping Keywords"}

\* the name of the second ad group could not be read: the findings of the first are
\* in the bucket, followed by the General Check Error, and the run has ended
C23_Witness ==
    /\ pc = "done"
    /\ Caught("Ad Groups")
    /\ src.adGroups.iterator = "ok"
    /\ Len(src.adGroups.adGroups) > 1
    /\ src.adGroups.adGroups[1].name # "throw"
    /\ Len(CategoryFindings("Ad Groups")) > 1


\* C24: in the Ad Groups module, for each of the items "Ad Count", "Keyword Count"
\* and "Ad Group Naming", the Pass roll-up of the item is never recorded in a run in
\* which a Fail or Warn finding of an ad group has the same item.
C24_NoPassBesideFailOrWarn ==
    \A item \in {"Ad Count", "Keyword Count", "Ad Group Naming"} :
        ~(/\ AdGroupFindings(item, "Pass") # <<>>
          /\ \/ AdGroupFindings(item, "Fail") # <<>>
             \/ AdGroupFindings(item, "Warn") # <<>>)


\* the findings of the Ad Copy module with the given item and status
AdCopyFindings(item, status) ==
    SelectSeq(Emitted, LAMBDA row : row[1] = "Ad Copy" /\ row[2] = item /\ row[3] = status)

\* C25: a Pass roll-up states only what was verified: the "Ad Count" Pass is recorded
\* only if the count of enabled ads of every checked ad group was retrieved and is at
\* least MIN_ADS_PER_ADGROUP, and the "Policy Compliance" Pass of Ad Copy only if the
\* policy status of every checked ad was retrieved and is not DISAPPROVED.
C25_PassOnlyWhenVerified ==
    /\ (AdGroupFindings("Ad Count", "Pass") # <<>>) =>
          \A i \in DOMAIN src.adGroups.adGroups :
              /\ AdCountRetrieved(i)
              /\ CountNumber(src.adGroups.adGroups[i].ads) >= MIN_ADS_PER_ADGROUP
    /\ (AdCopyFindings("Policy Compliance", "Pass") # <<>>) =>
          \A i \in DOMAIN src.adCopy.ads :
              src.adCopy.ads[i].policy \notin {"throw", "DISAPPROVED"}


\* the campaign has a Fail finding of the Ad Extensions module with the given item
ExtensionFail(item, i) ==
    \E k \in DOMAIN Emitted :
        /\ Emitted[k][1] = "Ad Extensions (Assets)"
        /\ Emitted[k][2] = item
        /\ Emitted[k][3] = "Fail"
        /\ Emitted[k][4] = <<CampaignName(i)>>

\* every read of the extensions of the campaign and of its enabled ad groups completed
ExtensionsRetrieved(c) ==
    /\ ~ExtThrows(c.campaign)
    /\ \A j \in DOMAIN c.adGroups : ~ExtThrows(c.adGroups[j])

\* C26: in the Ad Extensions module, a "Sitelink Extensions" or "Callout Extensions"
\* Fail finding of a campaign is recorded only if the reads of the extensions
\* completed for the campaign and for every enabled ad group of it and found none of
\* the kind; a campaign whose read raised has the Error finding and no such Fail.
C26_ExtensionFailOnlyWhenEvaluated ==
    \A i \in DOMAIN src.extensions.campaigns :
        LET c == src.extensions.campaigns[i]
        IN  /\ ExtensionFail("Sitelink Extensions", i)
                  => (ExtensionsRetrieved(c) /\ ~hasSitelinks(c))
            /\ ExtensionFail("Callout Extensions", i)
                  => (ExtensionsRetrieved(c) /\ ~hasCallouts(c))


\* auditPerformanceMetrics has ended, by a return or by an exception
PerformanceEnded ==
    \/ Returned("auditPerformanceMetrics")
    \/ pc = "crashed" /\ Invoked # <<>> /\ Invoked[Len(Invoked)] = "Performance Metrics"

\* the findings of the Performance Metrics module with the given item
PerformanceFindings(item) ==
    SelectSeq(CategoryFindings("Performance Metrics"), LAMBDA row : row[2] = item)

\* C27: when the statistics of the account are retrieved, the Performance Metrics
\* module records, whichever accessors of a metric raise and whatever the values are,
\* all impression shares 0 included, exactly one finding each for CTR, average CPC,
\* conversion rate, CPA and ROAS and at least one finding on the search impression
\* share; when retrieving the statistics raises, it records one Error finding and
\* nothing else.
C27_EveryMetricHasAFinding ==
    PerformanceEnded =>
        IF src.performance.stats = "throw"
        THEN /\ Len(CategoryFindings("Performance Metrics")) = 1
             /\ CategoryFindings("Performance Metrics")[1][3] = "Error"
        ELSE /\ \A item \in {"Click-Through Rate (CTR)", "Average Cost-Per-Click (CPC)",
                             "Conversion Rate", "Cost Per Acquisition (CPA)",
                             "Return On Ad Spend (ROAS)"} :
                    Len(PerformanceFindings(item)) = 1
             /\ PerformanceFindings("Search Impression Share") # <<>>


\* the enabled ads of ad group a, as the account holds them
AdsOf(a) == SelectSeq(src.adCopy.ads, LAMBDA ad : ad.adGroup = a)

\* ad group a is in a Search campaign and the type of each of its ads can be read
SearchAdGroup(a) ==
    \A i \in DOMAIN AdsOf(a) : AdsOf(a)[i].search /\ AdsOf(a)[i].type # "throw"

\* C28: in the Ad Copy module, whatever the order in which the enabled ads are
\* iterated, an ad group of a Search campaign has an "RSA Usage per Ad Group" Fail
\* finding if and only if it has an enabled ad that is not an RSA and no enabled RSA;
\* it has at most one such Fail, and the Pass roll-up of the item is never recorded
\* in a run with such a Fail.
C28_RsaFailIffNoRsa ==
    Returned("auditAdCopy") =>
        /\ \A a \in DOMAIN AdGroupCampaign :
              LET fails == SelectSeq(AdCopyFindings("RSA Usage per Ad Group", "Fail"),
                                     LAMBDA row : Names(row, AdGroupName(a)))
              IN  /\ Len(fails) <= 1
                  /\ SearchAdGroup(a) =>
                        ((Len(fails) = 1) <=>
                            /\ \E i \in DOMAIN AdsOf(a) :
                                  AdsOf(a)[i].type # "RESPONSIVE_SEARCH_AD"
                            /\ \A i \in DOMAIN AdsOf(a) :
                                  AdsOf(a)[i].type # "RESPONSIVE_SEARCH_AD")
        /\ ~(/\ AdCopyFindings("RSA Usage per Ad Group", "Fail") # <<>>
             /\ AdCopyFindings("RSA Usage per Ad Group", "Pass") # <<>>)


\* the enabled keywords of the account whose text can be read
ReadableKeywords == SelectSeq(src.keywords.keywords, LAMBDA k : k.text # "throw")

\* the enabled keywords with the key, and those of them in ad group a
WithKey(key) == SelectSeq(ReadableKeywords, LAMBDA k : duplicateKey(k) = key)
WithKeyIn(key, a) == SelectSeq(WithKey(key), LAMBDA k : k.adGroup = a)

\* the Warn findings on a duplicate of the key recorded for ad group a
DuplicateWarns(key, a) ==
    SelectSeq(Emitted,
              LAMBDA row : /\ row[1] = "Keywords"
                           /\ row[2] = "Potential Duplicate Keyword (Cross-AdGroup)"
                           /\ row[3] = "Warn"
                           /\ row[4][1] = key[2]
                           /\ row[4][2] = key[3]
                           /\ row[4][3] = AdGroupName(a)
                           /\ row[4][5] = CampaignName(key[1]))

\* the first ad group in which the loops of auditKeywords reach the key
FirstAdGroup(key) ==
    CHOOSE a \in DOMAIN AdGroupCampaign :
        /\ WithKeyIn(key, a) # <<>>
        /\ \A b \in DOMAIN AdGroupCampaign : WithKeyIn(key, b) # <<>> => a <= b

\* C29: in the Keywords module, for every key of campaign, keyword text and match
\* type, a "Potential Duplicate Keyword (Cross-AdGroup)" Warn finding is recorded if
\* and only if enabled keywords with the key are in two or more enabled ad groups of
\* the campaign; an occurrence is warned exactly when its ad group is not the first
\* in which the key was seen; the same keyword in two campaigns gives no Warn.
C29_DuplicateWarnIffTwoAdGroups ==
    Returned("auditKeywords") =>
        \A key \in {duplicateKey(ReadableKeywords[i]) : i \in DOMAIN ReadableKeywords} :
            /\ (\E a \in DOMAIN AdGroupCampaign : DuplicateWarns(key, a) # <<>>)
                  <=> (\E a, b \in DOMAIN AdGroupCampaign :
                          a # b /\ WithKeyIn(key, a) # <<>> /\ WithKeyIn(key, b) # <<>>)
            /\ \A a \in DOMAIN AdGroupCampaign :
                  Len(DuplicateWarns(key, a)) =
                      IF a = FirstAdGroup(key) THEN 0 ELSE Len(WithKeyIn(key, a))


---------------------------------------------------------------------------
(* C30: the URL loop of the Landing Pages module *)

LandingPagesRan == Returned("auditLandingPages") /\ CONFIG.CHECK_LANDING_PAGES

\* the URLs collected from the ads and the keywords, duplicates included, and the
\* outcome of the loop over them
CollectedUrls == urlSources(src.landing)

UrlLoopOutcome == urlLoop(CollectedUrls, 1, {}, <<>>, CONFIG.LANDING_PAGE_SAMPLE_SIZE)

\* the findings of the given items that name the URL
UrlFindings(items, url) ==
    SelectSeq(LandingFindings, LAMBDA row : row[2] \in items /\ row[4] # <<>> /\ row[4][1] = url)

SecurePass ==
    SelectSeq(LandingFindings, LAMBDA row : row[2] = "Secure URLs (HTTPS)" /\ row[3] = "Pass")

C30_WitnessSample ==
    /\ pc = "done"
    /\ CONFIG.CHECK_LANDING_PAGES
    /\ Len(CollectedUrls) = 2
    /\ Len(UrlLoopOutcome.checked) = 1
    /\ UrlOf(CollectedUrls[1]) # UrlOf(CollectedUrls[2])
    /\ ~startsWithHttps(CollectedUrls[2])
    /\ SecurePass # <<>>

====
